---- MODULE Spec2Model ----
(***************************************************************************)
(* A model of the per-frame simulation of game/game.go (NewGame, Update)   *)
(* and of what Draw computes of the sky and takes from the random source.  *)
(*                                                                         *)
(* Numbers.  Positions, velocities and speeds are float64 in the source;   *)
(* here they are exact fixed-point integers in units of 1/Milli, which is  *)
(* exact for every value the bounded draws below can produce.  The timers  *)
(* that the source steps by 1.0/60.0 or 0.016 are modelled as float64      *)
(* values with IEEE round-to-nearest-even (F64Add), because whether a      *)
(* timer has reached zero after n steps depends on the rounding.           *)
(***************************************************************************)
EXTENDS Integers, Sequences, FiniteSets, TLC

\* fixed-point resolution of positions and speeds: 1/1000 of a unit
Milli == 10 * 100

----------------------------------------------------------------------------
\* Program constants (game.go, const block).  Lengths are in whole units,
\* Gravity and the speeds in 1/Milli units.
ScreenWidth == 320
ScreenHeight == 480
PlatformWidth == 60
PlatformHeight == 10
PlayerWidth == 40
PlayerHeight == 40
BirdWidth == 40
BirdHeight == 30
CloudWidth == 80
CloudHeight == 40
\* 0.15
Gravity == 150
JumpVelocity == -7
PlatformCount == 10
InitialBirdCount == 1
MaxBirdCount == 8
MaxBirdsPerLine == 2
CloudCount == 5
SnowflakeCount == 40
RaindropCount == 50
\* 0.7, 1.5, 2.5, 4.0
InitialBirdSpeedMin == 700
InitialBirdSpeedMax == 1500
MaxBirdSpeedMin == 2500
MaxBirdSpeedMax == 4000
\* 0.2, 1.0
CloudSpeedMin == 200
CloudSpeedMax == 1000
\* 0.15, as a threshold on a draw in thousandths
BoostSpawnChance == 150
BulletSpeed == 5
ScorePerDifficulty == 20

WeatherClear == 0
WeatherRain == 1
WeatherSnow == 2

BoostNone == 0
BoostSpeed == 1
BoostJump == 2
BoostShield == 3

\* the day cycle: a full day is DayCycleLength points of score; the phases of
\* the day are fractions of it, here in 1/Milli of a day (0.2, 0.7, 0.9)
DayCycleLength == 1000
SunriseStart == 0
SunriseEnd == 200
SunsetStart == 700
SunsetEnd == 900

PlatformNormal == 0
PlatformSticky == 1
PlatformDisappearing == 2

PlatformIntact == 0
PlatformBreaking == 1
PlatformBroken == 2

----------------------------------------------------------------------------
\* float64 values that are multiples of 2^-58, as sign and magnitude; the
\* magnitude is three limbs <<a, b, c>> of 24 bits, most significant first,
\* counting units of 2^-58.  Every float64 of magnitude in [2^-5, 2^13) is
\* such a multiple, and so is every difference of two of them below 2^-5.
Limb == 4096 * 4096

Ge3(x, y) ==
    \/ x[1] > y[1]
    \/ x[1] = y[1] /\ x[2] > y[2]
    \/ x[1] = y[1] /\ x[2] = y[2] /\ x[3] >= y[3]

Add3(x, y) ==
    LET c  == x[3] + y[3]
        b  == x[2] + y[2] + (c \div Limb)
    IN  << x[1] + y[1] + (b \div Limb), b % Limb, c % Limb >>

\* x - y for Ge3(x, y)
Sub3(x, y) ==
    LET c  == x[3] - y[3]
        bc == IF c < 0 THEN 1 ELSE 0
        b  == x[2] - y[2] - bc
        bb == IF b < 0 THEN 1 ELSE 0
    IN  << x[1] - y[1] - bb, b + bb * Limb, c + bc * Limb >>

\* the spacing of float64 values around a magnitude with top limb a, in units
\* of 2^-58: 1 below 2^53 units (a < 32), doubling with every binade above
RECURSIVE RoundUnit(_)
RoundUnit(a) == IF a < 32 THEN 1 ELSE 2 * RoundUnit(a \div 2)

\* round a magnitude to the nearest float64, ties to even
Round3(x) ==
    LET u    == RoundUnit(x[1])
        r    == x[3] % u
        down == << x[1], x[2], x[3] - r >>
        up   == \/ 2 * r > u
                \/ 2 * r = u /\ (x[3] \div u) % 2 = 1
    IN  IF up THEN Add3(down, << 0, 0, u >>) ELSE down

F64(neg, a, b, c) == [neg |-> neg, m |-> << a, b, c >>]

F64Zero == F64(FALSE, 0, 0, 0)

F64Neg(x) == IF x.m = << 0, 0, 0 >> THEN x ELSE [x EXCEPT !.neg = ~x.neg]

\* float64 addition: the exact sum, rounded
F64Add(x, y) ==
    IF x.neg = y.neg
    THEN [neg |-> x.neg, m |-> Round3(Add3(x.m, y.m))]
    ELSE IF x.m = y.m THEN F64Zero
    ELSE IF Ge3(x.m, y.m)
         THEN [neg |-> x.neg, m |-> Round3(Sub3(x.m, y.m))]
         ELSE [neg |-> y.neg, m |-> Round3(Sub3(y.m, x.m))]

F64Sub(x, y) == F64Add(x, F64Neg(y))

\* x <= 0 and x > 0 on float64 values
F64LeZero(x) == x.neg \/ x.m = << 0, 0, 0 >>
F64GtZero(x) == ~F64LeZero(x)

\* float64(1.0 / 60.0), float64(0.016): the per-tick steps of the timers
TickStep == F64(FALSE, 17, 1118481, 1118481)
WeatherStep == F64(FALSE, 16, 6442450, 15837692)
\* float64(0.3), float64(0.4), 4.0, 12.0
BreakTime == F64(FALSE, 307, 3355443, 3355440)
ShootCooldown == F64(FALSE, 409, 10066329, 10066336)
FlyDuration == F64(FALSE, 4096, 0, 0)
BoostDuration == F64(FALSE, 12288, 0, 0)
\* n seconds, for whole n < 2^13: the weather timer's draws
F64Seconds(n) == F64(FALSE, n * 1024, 0, 0)

----------------------------------------------------------------------------
\* Fixed point: M(n) is n whole units; a draw of rand.Float64() is u in
\* 0..999 thousandths and Frac(u, x) is u * x.
M(n) == n * Milli
Frac(u, x) == (u * x) \div 1000

\* element i (from 1) of a finite table of draws, taken cyclically
Cyc(s, i) == s[((i - 1) % Len(s)) + 1]

Min(a, b) == IF a < b THEN a ELSE b
Abs(a) == IF a < 0 THEN -a ELSE a

\* the three-way platform type roll of NewGame and of the recycle
PlatformTypeOf(rnd) ==
    IF rnd < 200 THEN PlatformSticky
    ELSE IF rnd < 350 THEN PlatformDisappearing
    ELSE PlatformNormal

\* a direction roll: rand.Float64() < 0.5 gives -1
DirectionOf(rnd) == IF rnd < 500 THEN -1 ELSE 1

\* what the last Update did (its keys, the platform hit and how, the platforms
\* recycled, the wraps, the birds touched), what it found (the keys of the
\* tick before and the weather), the platforms whose band its collision test
\* found the player's feet in, whether it drew a new weather, the number
\* of boosts picked up in the session so far, and the number of ticks since
\* flight was granted (-1: flight is not enabled), the birds a bullet sent
\* above the screen, the birds and clouds the scroll put back at the
\* top, for each bird put back the birds as its placement found them, and
\* the bullet shot: a history, read by no step
NoEvents ==
    [hit |-> 0, hitKind |-> "none", recycled |-> {},
     wrapLeft |-> FALSE, wrapRight |-> FALSE, birdsHit |-> {},
     flew |-> FALSE, scrolled |-> FALSE, keys |-> {},
     prev |-> {}, weatherWas |-> WeatherClear,
     weatherDrawn |-> FALSE, boostsTaken |-> 0, flyAge |-> -1,
     overlapped |-> {}, birdsShot |-> {}, birdsRecycled |-> {},
     cloudsRecycled |-> {}, birdsSeen |-> {}, shots |-> {}]

\* NewGame: the session after construction, from the draws nd and the wall
\* clock's hour.  Slice index i of the source is index i + 1 here.
NewGame(nd, hour) ==
    LET px == M(ScreenWidth \div 2)
        Plat(i) ==
            IF i = 0
            THEN [X |-> px - M(PlatformWidth \div 2),
                  Y |-> M(ScreenHeight - 30),
                  Type |-> PlatformNormal, State |-> PlatformIntact,
                  BreakTimer |-> F64Zero]
            ELSE [X |-> Frac(Cyc(nd.platX, i), M(ScreenWidth - PlatformWidth)),
                  Y |-> i * M(ScreenHeight \div PlatformCount),
                  Type |-> PlatformTypeOf(Cyc(nd.platType, i)),
                  State |-> PlatformIntact,
                  BreakTimer |-> F64Zero]
        Cl(i) ==
            LET u(k) == Cyc(nd.cloud, 6 * i + k)
            IN  [X |-> Frac(u(1), M(ScreenWidth)),
                 Y |-> Frac(u(2), (M(ScreenHeight) * 7) \div 10),
                 SpeedX |-> CloudSpeedMin + Frac(u(3), CloudSpeedMax - CloudSpeedMin),
                 Width |-> CloudWidth * (700 + Frac(u(4), 600)),
                 Height |-> CloudHeight * (700 + Frac(u(5), 600)),
                 Alpha |-> 500 + Frac(u(6), 500)]
    IN  [player |-> [X |-> px, Y |-> M(ScreenHeight - 100), VelocityY |-> 0,
                     FacingRight |-> TRUE, CanFly |-> FALSE,
                     FlyTimer |-> F64Zero, ShootTimer |-> F64Zero,
                     BoostType |-> BoostNone, BoostTimer |-> F64Zero],
         platforms |-> [i \in 1..PlatformCount |-> Plat(i - 1)],
         birds |-> [i \in 1..InitialBirdCount |->
                      [X |-> Frac(nd.birdX, M(ScreenWidth)),
                       Y |-> Frac(nd.birdY, M(ScreenHeight)) \div 2,
                       SpeedX |-> InitialBirdSpeedMin
                                    + Frac(nd.birdSpeed,
                                           InitialBirdSpeedMax - InitialBirdSpeedMin),
                       Direction |-> DirectionOf(nd.birdDir)]],
         clouds |-> [i \in 1..CloudCount |-> Cl(i - 1)],
         particles |-> << >>,
         boosts |-> << >>,
         bullets |-> << >>,
         score |-> 0,
         difficulty |-> 0,
         birdCount |-> InitialBirdCount,
         birdSpeedMin |-> InitialBirdSpeedMin,
         birdSpeedMax |-> InitialBirdSpeedMax,
         camera |-> 0,
         gameOver |-> FALSE,
         startTime |-> hour,
         nightMode |-> (hour < 6 \/ hour > 18),
         weatherTimer |-> F64Seconds(nd.weatherSecs),
         weather |-> WeatherClear,
         gameTime |-> F64Zero,
         initialTimeOfDay |-> nd.timeOfDay,
         stuckToPlatform |-> 0,
         stuckTimer |-> F64Zero,
         jumpPressed |-> FALSE,
         canJumpRelease |-> FALSE,
         ev |-> NoEvents,
         breakAge |-> [i \in 1..PlatformCount |-> -1]]

----------------------------------------------------------------------------
\* Update, step by step in the order of the source.  g is the session, keys
\* the set of keys held in this tick, prev the set held in the tick before
\* (inpututil.IsKeyJustPressed), r the tick's draws.
Pressed(keys, k) == k \in keys
JustPressed(keys, prev, k) == k \in keys /\ k \notin prev

\* ToggleWeather that knows two kinds of weather only
ToggleWeatherOfTwo(g, keys, prev) ==
    IF JustPressed(keys, prev, "W")
    THEN [g EXCEPT !.weather = (g.weather + 1) % 2, !.particles = << >>]
    ELSE g

\* ToggleWeather that starts the countdown anew, at its shortest
ToggleWeatherRestarts(g, keys, prev) ==
    IF JustPressed(keys, prev, "W")
    THEN [g EXCEPT !.weather = (g.weather + 1) % 3, !.particles = << >>,
                   !.weatherTimer = F64Seconds(15)]
    ELSE g

\* lines 639-643: W (edge) cycles the weather and clears the particles
ToggleWeather(g, keys, prev) ==
    IF JustPressed(keys, prev, "W")
    THEN [g EXCEPT !.weather = (g.weather + 1) % 3, !.particles = << >>]
    ELSE g

\* lines 645-652: the weather countdown
UpdateWeatherTimer(g, r) ==
    LET t == F64Sub(g.weatherTimer, WeatherStep)
    IN  IF F64LeZero(t)
        THEN [g EXCEPT !.weather = r.weatherIntn,
                       !.weatherTimer = F64Seconds(15 + r.weatherSecs),
                       !.particles = << >>,
                       !.ev.weatherDrawn = TRUE]
        ELSE [g EXCEPT !.weatherTimer = t]

\* generateParticle; r.particle holds the draws of X, SpeedX, SpeedY, Size, Alpha
generateParticle(g, r) ==
    LET u == r.particle
    IN  IF g.weather = WeatherRain
        THEN [X |-> Frac(u[1], M(ScreenWidth)), Y |-> M(-5),
              SpeedX |-> M(1) + Frac(u[2], M(2)),
              SpeedY |-> M(8) + Frac(u[3], M(4)),
              Size |-> M(2) + Frac(u[4], M(3)),
              Alpha |-> 600 + Frac(u[5], 400)]
        ELSE IF g.weather = WeatherSnow
        THEN [X |-> Frac(u[1], M(ScreenWidth)), Y |-> M(-5),
              SpeedX |-> M(-1) + Frac(u[2], M(2)),
              SpeedY |-> M(1) + Frac(u[3], M(2)),
              Size |-> M(2) + Frac(u[4], M(4)),
              Alpha |-> 700 + Frac(u[5], 300)]
        ELSE [X |-> 0, Y |-> 0, SpeedX |-> 0, SpeedY |-> 0, Size |-> 0, Alpha |-> 0]

\* SpawnParticle with caps that may be met and passed by one
SpawnParticleOffByOne(g, r) ==
    IF g.weather = WeatherRain
    THEN IF Len(g.particles) <= RaindropCount /\ r.particleRoll < 300
         THEN [g EXCEPT !.particles = Append(@, generateParticle(g, r))]
         ELSE g
    ELSE IF g.weather = WeatherSnow
    THEN IF Len(g.particles) <= SnowflakeCount /\ r.particleRoll < 200
         THEN [g EXCEPT !.particles = Append(@, generateParticle(g, r))]
         ELSE g
    ELSE g

\* lines 654-665: at most one new particle, below the weather's cap
SpawnParticle(g, r) ==
    IF g.weather = WeatherRain
    THEN IF Len(g.particles) < RaindropCount /\ r.particleRoll < 300
         THEN [g EXCEPT !.particles = Append(@, generateParticle(g, r))]
         ELSE g
    ELSE IF g.weather = WeatherSnow
    THEN IF Len(g.particles) < SnowflakeCount /\ r.particleRoll < 200
         THEN [g EXCEPT !.particles = Append(@, generateParticle(g, r))]
         ELSE g
    ELSE g

\* lines 667-678: move the particles from index i on; one that left the
\* screen is overwritten by the last, the slice is cut, and index i runs again
RECURSIVE ParticlesFrom(_, _)
ParticlesFrom(ps, i) ==
    IF i > Len(ps) THEN ps
    ELSE LET q     == [ps[i] EXCEPT !.X = @ + ps[i].SpeedX, !.Y = @ + ps[i].SpeedY]
             moved == [ps EXCEPT ![i] = q]
             n     == Len(ps)
         IN  IF q.Y > M(ScreenHeight)
             THEN ParticlesFrom(SubSeq([moved EXCEPT ![i] = moved[n]], 1, n - 1), i)
             ELSE ParticlesFrom(moved, i + 1)

\* the number of Updates after which a particle that falls by speedY per
\* tick from Y = -5 has passed the lower edge (line 674) and is removed
ParticleLife(speedY) == ((M(ScreenHeight) + M(5)) \div speedY) + 1

\* UpdateParticles that moves the particles and removes none
UpdateParticlesKeepAll(g) ==
    [g EXCEPT !.particles =
        [i \in DOMAIN @ |-> [@[i] EXCEPT !.X = @ + g.particles[i].SpeedX,
                                         !.Y = @ + g.particles[i].SpeedY]]]

UpdateParticles(g) == [g EXCEPT !.particles = ParticlesFrom(@, 1)]

\* lines 680-698 (690: the release impulse): a fresh press of a jump key
\* releases a stuck player
StickyReleaseVelocity == (JumpVelocity * 12 * Milli) \div 10

\* HandleStickyRelease that lets a held key release the player
HandleStickyReleaseHeld(g, keys) ==
    LET jumpKey  == Pressed(keys, "Up") \/ Pressed(keys, "W")
        spaceKey == Pressed(keys, "Space")
    IN  IF jumpKey \/ spaceKey
        THEN IF g.stuckToPlatform # 0
             THEN [g EXCEPT !.player.VelocityY = StickyReleaseVelocity,
                            !.stuckToPlatform = 0,
                            !.stuckTimer = F64Zero,
                            !.jumpPressed = TRUE]
             ELSE [g EXCEPT !.jumpPressed = TRUE]
        ELSE [g EXCEPT !.jumpPressed = FALSE]

HandleStickyRelease(g, keys) ==
    LET jumpKey  == Pressed(keys, "Up") \/ Pressed(keys, "W")
        spaceKey == Pressed(keys, "Space")
    IN  IF jumpKey \/ spaceKey
        THEN IF ~g.jumpPressed /\ g.stuckToPlatform # 0
             THEN [g EXCEPT !.player.VelocityY = StickyReleaseVelocity,
                            !.stuckToPlatform = 0,
                            !.stuckTimer = F64Zero,
                            !.jumpPressed = TRUE]
             ELSE [g EXCEPT !.jumpPressed = TRUE]
        ELSE [g EXCEPT !.jumpPressed = FALSE]

\* lines 705-710: a Breaking platform's timer runs down to Broken
BreakStep(p) ==
    IF p.Type = PlatformDisappearing /\ p.State = PlatformBreaking
    THEN LET t == F64Sub(p.BreakTimer, TickStep)
         IN  [p EXCEPT !.BreakTimer = t,
                       !.State = IF F64LeZero(t) THEN PlatformBroken ELSE @]
    ELSE p

\* lines 713-716: the player's feet are in the platform's band
PlatformOverlaps(pl, p) ==
    /\ pl.X + M(PlayerWidth \div 3) >= p.X
    /\ pl.X - M(PlayerWidth \div 3) <= p.X + M(PlatformWidth)
    /\ pl.Y + M(PlayerHeight \div 2) >= p.Y
    /\ pl.Y + M(PlayerHeight \div 2) <= p.Y + M(PlatformHeight)

\* the collision test without the test for falling
PlatformCollidesRising(pl, p) == PlatformOverlaps(pl, p)

\* lines 713-717: the player's feet are in the platform's band while falling
PlatformCollides(pl, p) == PlatformOverlaps(pl, p) /\ pl.VelocityY > 0

\* the jump impulse with the test for the Jump boost inverted
JumpForceInverted(pl) ==
    IF pl.BoostType # BoostJump
    THEN (M(JumpVelocity) * 15) \div 10
    ELSE M(JumpVelocity)

\* lines 737-741, 744-748: the jump impulse, 1.5 times under the Jump boost
JumpForce(pl) ==
    IF pl.BoostType = BoostJump
    THEN (M(JumpVelocity) * 15) \div 10
    ELSE M(JumpVelocity)

\* Collide that does not skip a Broken platform
CollideBroken(g, i) ==
    LET p == g.platforms[i]
    IN  IF p.Type = PlatformSticky
        THEN [g EXCEPT !.stuckToPlatform = i,
                       !.stuckTimer = F64Zero,
                       !.player.VelocityY = 0,
                       !.player.Y = p.Y - M(PlayerHeight \div 2),
                       !.canJumpRelease = FALSE,
                       !.ev.hit = i, !.ev.hitKind = "stick"]
        ELSE IF p.Type = PlatformDisappearing /\ p.State = PlatformIntact
        THEN [g EXCEPT !.platforms[i].State = PlatformBreaking,
                       !.platforms[i].BreakTimer = BreakTime,
                       !.player.VelocityY = JumpForce(g.player),
                       !.ev.hit = i, !.ev.hitKind = "break"]
        ELSE [g EXCEPT !.player.VelocityY = JumpForce(g.player),
                       !.ev.hit = i,
                       !.ev.hitKind = IF p.Type = PlatformNormal
                                      THEN "bounce" ELSE "rebounce"]

\* Collide in which a Disappearing platform holds the player as a Sticky one
CollideClingy(g, i) ==
    LET p == g.platforms[i]
    IN  IF p.Type = PlatformDisappearing /\ p.State = PlatformBroken
        THEN g
        ELSE IF p.Type # PlatformNormal
        THEN [g EXCEPT !.stuckToPlatform = i,
                       !.stuckTimer = F64Zero,
                       !.player.VelocityY = 0,
                       !.player.Y = p.Y - M(PlayerHeight \div 2),
                       !.canJumpRelease = FALSE,
                       !.ev.hit = i, !.ev.hitKind = "stick"]
        ELSE [g EXCEPT !.player.VelocityY = JumpForce(g.player),
                       !.ev.hit = i, !.ev.hitKind = "bounce"]

\* lines 719-749: what a collision with platform i does
Collide(g, i) ==
    LET p == g.platforms[i]
    IN  IF p.Type = PlatformDisappearing /\ p.State = PlatformBroken
        THEN g
        ELSE IF p.Type = PlatformSticky
        THEN [g EXCEPT !.stuckToPlatform = i,
                       !.stuckTimer = F64Zero,
                       !.player.VelocityY = 0,
                       !.player.Y = p.Y - M(PlayerHeight \div 2),
                       !.canJumpRelease = FALSE,
                       !.ev.hit = i, !.ev.hitKind = "stick"]
        ELSE IF p.Type = PlatformDisappearing /\ p.State = PlatformIntact
        THEN [g EXCEPT !.platforms[i].State = PlatformBreaking,
                       !.platforms[i].BreakTimer = BreakTime,
                       !.player.VelocityY = JumpForce(g.player),
                       !.ev.hit = i, !.ev.hitKind = "break"]
        ELSE [g EXCEPT !.player.VelocityY = JumpForce(g.player),
                       !.ev.hit = i,
                       !.ev.hitKind = IF p.Type = PlatformNormal
                                      THEN "bounce" ELSE "rebounce"]

\* the history notes the platforms whose band holds the player's feet
NoteOverlap(g, i) ==
    IF PlatformOverlaps(g.player, g.platforms[i])
    THEN [g EXCEPT !.ev.overlapped = @ \cup {i}]
    ELSE g

\* lines 713-750: the collision test of platform i and what it leads to
CollideIf(g, i) ==
    IF PlatformCollides(g.player, g.platforms[i]) THEN Collide(g, i) ELSE g

\* lines 700-751: the platform loop, from index i on
RECURSIVE PlatformsFrom(_, _)
PlatformsFrom(g, i) ==
    IF i > Len(g.platforms) THEN g
    ELSE PlatformsFrom(
             CollideIf(NoteOverlap([g EXCEPT !.platforms[i] = BreakStep(@)], i), i),
             i + 1)

UpdatePlatforms(g) == PlatformsFrom(g, 1)

\* lines 753-759: a stuck player is pinned to its platform
UpdateStuck(g) ==
    IF g.stuckToPlatform # 0
    THEN [g EXCEPT !.stuckTimer = F64Add(@, TickStep),
                   !.player.Y = g.platforms[g.stuckToPlatform].Y
                                  - M(PlayerHeight \div 2),
                   !.player.VelocityY = 0]
    ELSE g

\* lines 761-781: the boost, flight and shoot timers
UpdateBoostTimer(pl) ==
    IF pl.BoostType # BoostNone
    THEN LET t == F64Sub(pl.BoostTimer, TickStep)
         IN  IF F64LeZero(t)
             THEN [pl EXCEPT !.BoostType = BoostNone, !.BoostTimer = F64Zero]
             ELSE [pl EXCEPT !.BoostTimer = t]
    ELSE pl

UpdateFlyTimer(pl) ==
    IF pl.CanFly
    THEN LET t == F64Sub(pl.FlyTimer, TickStep)
         IN  [pl EXCEPT !.FlyTimer = t,
                        !.CanFly = IF F64LeZero(t) THEN FALSE ELSE @]
    ELSE pl

UpdateShootTimer(pl) ==
    IF F64GtZero(pl.ShootTimer)
    THEN [pl EXCEPT !.ShootTimer = F64Sub(@, TickStep)]
    ELSE pl

UpdateTimers(g) ==
    [g EXCEPT !.player = UpdateShootTimer(UpdateFlyTimer(UpdateBoostTimer(@)))]

\* swap-remove of the source: element i is overwritten by the last one
RemoveAt(s, i) == SubSeq([s EXCEPT ![i] = s[Len(s)]], 1, Len(s) - 1)

\* lines 786-790: the player overlaps boost b
BoostOverlap(pl, b) ==
    /\ pl.X + M(PlayerWidth \div 3) >= b.X
    /\ pl.X - M(PlayerWidth \div 3) <= b.X + M(PlatformWidth \div 2)
    /\ pl.Y + M(PlayerHeight \div 2) >= b.Y
    /\ pl.Y - M(PlayerHeight \div 2) <= b.Y + M(PlatformHeight * 2)

\* lines 792-803: the effect of picking up a boost of type ty
ApplyBoost(pl, ty) ==
    LET q == [pl EXCEPT !.BoostType = ty, !.BoostTimer = BoostDuration]
    IN  IF ty = BoostJump
        THEN [q EXCEPT !.CanFly = TRUE, !.FlyTimer = FlyDuration]
        ELSE q

\* lines 783-812: the boost loop, from index i on
RECURSIVE BoostsFrom(_, _)
BoostsFrom(g, i) ==
    IF i > Len(g.boosts) THEN g
    ELSE LET b  == g.boosts[i]
             g1 == IF b.Active /\ BoostOverlap(g.player, b)
                   THEN [g EXCEPT !.player = ApplyBoost(@, b.Type),
                                  !.boosts[i].Active = FALSE,
                                  !.ev.boostsTaken = @ + 1]
                   ELSE g
         IN  IF ~g1.boosts[i].Active
             THEN BoostsFrom([g1 EXCEPT !.boosts = RemoveAt(@, i)], i)
             ELSE BoostsFrom(g1, i + 1)

UpdateBoosts(g) == BoostsFrom(g, 1)

\* lines 814-818
PlayerSpeed(pl) == IF pl.BoostType = BoostSpeed THEN M(5) ELSE M(3)

\* left, stopping at the left edge instead of wrapping
MoveLeftClamp(g, keys) ==
    IF Pressed(keys, "Left") \/ Pressed(keys, "A")
    THEN LET x == g.player.X - PlayerSpeed(g.player)
         IN  [g EXCEPT !.player.X = IF x < 0 THEN 0 ELSE x,
                       !.player.FacingRight = FALSE,
                       !.ev.wrapLeft = (x < 0)]
    ELSE g

\* lines 820-826: left, wrapping to the right edge
MoveLeft(g, keys) ==
    IF Pressed(keys, "Left") \/ Pressed(keys, "A")
    THEN LET x == g.player.X - PlayerSpeed(g.player)
         IN  [g EXCEPT !.player.X = IF x < 0 THEN M(ScreenWidth) ELSE x,
                       !.player.FacingRight = FALSE,
                       !.ev.wrapLeft = (x < 0)]
    ELSE g

\* lines 827-833: right, wrapping to the left edge
MoveRight(g, keys) ==
    IF Pressed(keys, "Right") \/ Pressed(keys, "D")
    THEN LET x == g.player.X + PlayerSpeed(g.player)
         IN  [g EXCEPT !.player.X = IF x > M(ScreenWidth) THEN 0 ELSE x,
                       !.player.FacingRight = TRUE,
                       !.ev.wrapRight = (x > M(ScreenWidth))]
    ELSE g

\* lines 835-838: flying with the up key
Fly(g, keys) ==
    IF (Pressed(keys, "Up") \/ Pressed(keys, "W")) /\ g.player.CanFly
    THEN [g EXCEPT !.player.VelocityY = M(-4), !.ev.flew = TRUE]
    ELSE g

\* ToggleFly that does not wait for the fly timer to run out
ToggleFlyAnyTime(g, keys, prev) ==
    IF JustPressed(keys, prev, "F")
    THEN [g EXCEPT !.player.CanFly = TRUE, !.player.FlyTimer = FlyDuration]
    ELSE g

\* lines 840-844: F (edge) grants flight once the fly timer has run out
ToggleFly(g, keys, prev) ==
    IF JustPressed(keys, prev, "F") /\ F64LeZero(g.player.FlyTimer)
    THEN [g EXCEPT !.player.CanFly = TRUE, !.player.FlyTimer = FlyDuration]
    ELSE g

\* lines 846-864: Space (edge) shoots once the cooldown has run out
Shoot(g, keys, prev) ==
    IF JustPressed(keys, prev, "Space") /\ F64LeZero(g.player.ShootTimer)
    THEN LET direction == IF g.player.FacingRight THEN 1 ELSE -1
             bullet == [X |-> g.player.X + M((direction * PlayerWidth) \div 2),
                        Y |-> g.player.Y,
                        Direction |-> direction,
                        Speed |-> M(BulletSpeed),
                        Active |-> TRUE]
         IN  [g EXCEPT !.bullets = Append(@, bullet),
                       !.player.ShootTimer = ShootCooldown,
                       !.ev.shots = @ \cup {bullet}]
    ELSE g

\* ApplyGravity that leaves a stuck player alone
ApplyGravityUnlessStuck(g) ==
    IF g.stuckToPlatform # 0
    THEN g
    ELSE LET v == g.player.VelocityY + Gravity
         IN  [g EXCEPT !.player.VelocityY = v, !.player.Y = @ + v]

\* lines 866-868: gravity, applied in every tick
ApplyGravity(g) ==
    LET v == g.player.VelocityY + Gravity
    IN  [g EXCEPT !.player.VelocityY = v, !.player.Y = @ + v]

\* lines 885-888: bullet b is inside bird d
BulletHits(b, d) ==
    /\ b.X >= d.X
    /\ b.X <= d.X + M(BirdWidth)
    /\ b.Y >= d.Y
    /\ b.Y <= d.Y + M(BirdHeight)

\* the bullet loop that goes on to index i + 1 after a removal, past the
\* bullet the removal has put at index i
RECURSIVE BulletsFromSkipping(_, _)
BulletsFromSkipping(g, i) ==
    IF i > Len(g.bullets) THEN g
    ELSE LET b  == [g.bullets[i] EXCEPT !.X = @ + g.bullets[i].Speed * g.bullets[i].Direction]
             g1 == [g EXCEPT !.bullets[i] = b]
             hit == {j \in 1..Len(g.birds) : BulletHits(b, g.birds[j])}
         IN  IF b.X < 0 \/ b.X > M(ScreenWidth)
             THEN BulletsFromSkipping([g1 EXCEPT !.bullets = RemoveAt(@, i)], i + 1)
             ELSE IF hit # {}
             THEN LET j == CHOOSE k \in hit : \A l \in hit : k <= l
                  IN  BulletsFromSkipping([g1 EXCEPT !.birds[j].Y = M(-BirdHeight * 2),
                                                     !.bullets = RemoveAt(@, i),
                                                     !.ev.birdsShot = @ \cup {j}],
                                          i + 1)
             ELSE BulletsFromSkipping(g1, i + 1)

\* lines 870-900: the bullet loop, from index i on
RECURSIVE BulletsFrom(_, _)
BulletsFrom(g, i) ==
    IF i > Len(g.bullets) THEN g
    ELSE LET b  == [g.bullets[i] EXCEPT !.X = @ + g.bullets[i].Speed * g.bullets[i].Direction]
             g1 == [g EXCEPT !.bullets[i] = b]
             hit == {j \in 1..Len(g.birds) : BulletHits(b, g.birds[j])}
         IN  IF b.X < 0 \/ b.X > M(ScreenWidth)
             THEN BulletsFrom([g1 EXCEPT !.bullets = RemoveAt(@, i)], i)
             ELSE IF hit # {}
             THEN LET j == CHOOSE k \in hit : \A l \in hit : k <= l
                  IN  BulletsFrom([g1 EXCEPT !.birds[j].Y = M(-BirdHeight * 2),
                                             !.bullets = RemoveAt(@, i),
                                             !.ev.birdsShot = @ \cup {j}], i)
             ELSE BulletsFrom(g1, i + 1)

UpdateBullets(g) == BulletsFrom(g, 1)

\* lines 902-910: clouds drift right and wrap
MoveCloud(c) ==
    LET x == c.X + c.SpeedX
    IN  [c EXCEPT !.X = IF x > M(ScreenWidth) THEN -c.Width ELSE x]

UpdateClouds(g) ==
    [g EXCEPT !.clouds = [i \in 1..Len(g.clouds) |-> MoveCloud(g.clouds[i])]]

\* lines 925-928: the player overlaps bird d
BirdOverlap(pl, d) ==
    /\ pl.X + M(PlayerWidth \div 4) >= d.X
    /\ pl.X - M(PlayerWidth \div 4) <= d.X + M(BirdWidth)
    /\ pl.Y + M(PlayerHeight \div 4) >= d.Y
    /\ pl.Y - M(PlayerHeight \div 4) <= d.Y + M(BirdHeight)

\* MoveBird with a bird that leaves by a side put back above the screen,
\* as the scroll puts back a bird that leaves by the bottom
MoveBirdAnew(d) ==
    LET x == d.X + d.SpeedX * d.Direction
    IN  IF x < M(-BirdWidth) /\ d.Direction < 0
        THEN [d EXCEPT !.X = M(ScreenWidth), !.Y = M(-BirdHeight)]
        ELSE IF x > M(ScreenWidth) /\ d.Direction > 0
        THEN [d EXCEPT !.X = M(-BirdWidth), !.Y = M(-BirdHeight)]
        ELSE [d EXCEPT !.X = x]

\* lines 915-922: a bird flies on and wraps
MoveBird(d) ==
    LET x == d.X + d.SpeedX * d.Direction
    IN  [d EXCEPT !.X = IF x < M(-BirdWidth) /\ d.Direction < 0 THEN M(ScreenWidth)
                        ELSE IF x > M(ScreenWidth) /\ d.Direction > 0 THEN M(-BirdWidth)
                        ELSE x]

\* BirdTouch with the Shield test the wrong way round
BirdTouchShieldOnly(g, i) ==
    IF g.player.BoostType = BoostShield
    THEN [g EXCEPT !.gameOver = TRUE, !.ev.birdsHit = @ \cup {i}]
    ELSE [g EXCEPT !.birds[i].Y = M(-BirdHeight * 2), !.ev.birdsHit = @ \cup {i}]

\* lines 930-936: a bird touching the player ends the game, or is sent above
\* the screen under the Shield boost
BirdTouch(g, i) ==
    IF g.player.BoostType # BoostShield
    THEN [g EXCEPT !.gameOver = TRUE, !.ev.birdsHit = @ \cup {i}]
    ELSE [g EXCEPT !.birds[i].Y = M(-BirdHeight * 2), !.ev.birdsHit = @ \cup {i}]

\* lines 912-938: the bird loop, from index i on
RECURSIVE BirdsFrom(_, _)
BirdsFrom(g, i) ==
    IF i > Len(g.birds) THEN g
    ELSE LET g1 == [g EXCEPT !.birds[i] = MoveBird(@)]
         IN  BirdsFrom(IF BirdOverlap(g1.player, g1.birds[i])
                       THEN BirdTouch(g1, i)
                       ELSE g1,
                       i + 1)

UpdateBirds(g) == BirdsFrom(g, 1)

\* the lower speed bound without the clamp of the progress factor
SpeedMinAtUnclamped(d) ==
    InitialBirdSpeedMin + (d * (MaxBirdSpeedMin - InitialBirdSpeedMin)) \div 10

\* lines 1006-1014: the bird speed range of difficulty d, by linear
\* interpolation over progressFactor = min(d / 10, 1)
SpeedMinAt(d) ==
    InitialBirdSpeedMin + (Min(d, 10) * (MaxBirdSpeedMin - InitialBirdSpeedMin)) \div 10

SpeedMaxAt(d) ==
    InitialBirdSpeedMax + (Min(d, 10) * (MaxBirdSpeedMax - InitialBirdSpeedMax)) \div 10

\* the bird count without the cap
BirdCountAtUncapped(d) == InitialBirdCount + d

\* lines 979-983: the bird count of difficulty d
BirdCountAt(d) == Min(InitialBirdCount + d, MaxBirdCount)

\* lines 988-1002: the birds appended for slice indexes from..upto-1
RECURSIVE AppendBirds(_, _, _, _)
AppendBirds(g, from, upto, r) ==
    IF from >= upto THEN g
    ELSE LET newBird ==
                 [X |-> Frac(r.birdX, M(ScreenWidth)),
                  Y |-> M(-BirdHeight * (1 + (from % MaxBirdsPerLine))),
                  SpeedX |-> g.birdSpeedMin
                               + Frac(r.birdSpeed, g.birdSpeedMax - g.birdSpeedMin),
                  Direction |-> DirectionOf(r.birdDir)]
         IN  AppendBirds([g EXCEPT !.birds = Append(@, newBird)], from + 1, upto, r)

\* the difficulty taken from the score before the recycle counted
DifficultyAtStale(sc) == (sc - 1) \div ScorePerDifficulty

\* line 975: the difficulty of a score, by integer division
DifficultyAt(sc) == sc \div ScorePerDifficulty

\* lines 974-1015: the difficulty follows the score
RaiseDifficulty(g, r) ==
    LET newDifficulty == DifficultyAt(g.score)
    IN  IF newDifficulty > g.difficulty
        THEN LET g1 == [g EXCEPT !.difficulty = newDifficulty]
                 newBirdCount == BirdCountAt(newDifficulty)
                 g2 == IF newBirdCount > g1.birdCount
                       THEN [AppendBirds(g1, g1.birdCount, newBirdCount, r)
                               EXCEPT !.birdCount = newBirdCount]
                       ELSE g1
             IN  [g2 EXCEPT !.birdSpeedMin = SpeedMinAt(newDifficulty),
                            !.birdSpeedMax = SpeedMaxAt(newDifficulty)]
        ELSE g

\* lines 1017-1029: a boost may appear above the recycled platform i
SpawnBoost(g, i, r) ==
    IF r.boostRoll < BoostSpawnChance
    THEN [g EXCEPT !.boosts =
            Append(@, [X |-> g.platforms[i].X + M(PlatformWidth \div 4),
                       Y |-> g.platforms[i].Y - M(PlatformHeight * 2),
                       Type |-> r.boostIntn + 1,
                       Active |-> TRUE])]
    ELSE g

\* RecycledPlatform that leaves the state as it was
RecycledPlatformAsIs(p, r) ==
    [p EXCEPT !.Y = 0,
              !.X = Frac(r.platX, M(ScreenWidth - PlatformWidth)),
              !.Type = PlatformTypeOf(r.platType)]

\* lines 955-972: platform p as it is put back at the top
RecycledPlatform(p, r) ==
    [p EXCEPT !.Y = 0,
              !.X = Frac(r.platX, M(ScreenWidth - PlatformWidth)),
              !.State = IF p.Type = PlatformDisappearing THEN PlatformIntact ELSE @,
              !.Type = PlatformTypeOf(r.platType)]

\* the recycle that appends the new platform and leaves the old one
RecyclePlatformAppend(g, i, r) ==
    [g EXCEPT !.platforms = Append(@, RecycledPlatform(g.platforms[i], r)),
              !.score = @ + 1,
              !.ev.recycled = @ \cup {i}]

\* the recycle that forgets the score
RecyclePlatformNoScore(g, i, r) ==
    [g EXCEPT !.platforms[i] = RecycledPlatform(@, r),
              !.ev.recycled = @ \cup {i}]

\* lines 954-972: platform i is recycled in place and the score counts it
RecyclePlatform(g, i, r) ==
    [g EXCEPT !.platforms[i] = RecycledPlatform(@, r),
              !.score = @ + 1,
              !.ev.recycled = @ \cup {i}]

\* lines 950-1031: the platforms move down by diff, from index i on
RECURSIVE ScrollPlatformsFrom(_, _, _, _)
ScrollPlatformsFrom(g, i, diff, r) ==
    IF i > Len(g.platforms) THEN g
    ELSE LET g1 == [g EXCEPT !.platforms[i].Y = @ + diff]
         IN  ScrollPlatformsFrom(
                 IF g1.platforms[i].Y > M(ScreenHeight)
                 THEN SpawnBoost(RaiseDifficulty(RecyclePlatform(g1, i, r), r), i, r)
                 ELSE g1,
                 i + 1, diff, r)

\* lines 1050-1055: the birds other than i within one BirdHeight of newY
BirdsAtSameHeight(birds, i, newY) ==
    Cardinality({j \in 1..Len(birds) : j # i /\ Abs(birds[j].Y - newY) < M(BirdHeight)})

\* PlaceBird that takes a height with MaxBirdsPerLine other birds at it
RECURSIVE PlaceBirdCrowded(_, _, _, _)
PlaceBirdCrowded(birds, i, attempts, r) ==
    IF attempts >= 10 THEN 0
    ELSE LET newY == M(-BirdHeight) - Cyc(r.birdYIntn, attempts + 1) * M(BirdHeight)
         IN  IF BirdsAtSameHeight(birds, i, newY) <= MaxBirdsPerLine
             THEN newY
             ELSE PlaceBirdCrowded(birds, i, attempts + 1, r)

\* lines 1045-1064: the first of at most ten draws of a height that is free;
\* 0 when none is
RECURSIVE PlaceBird(_, _, _, _)
PlaceBird(birds, i, attempts, r) ==
    IF attempts >= 10 THEN 0
    ELSE LET newY == M(-BirdHeight) - Cyc(r.birdYIntn, attempts + 1) * M(BirdHeight)
         IN  IF BirdsAtSameHeight(birds, i, newY) < MaxBirdsPerLine
             THEN newY
             ELSE PlaceBird(birds, i, attempts + 1, r)

\* lines 1038-1079: bird i is put back above the screen
RecycleBird(g, i, r) ==
    LET y == PlaceBird(g.birds, i, 0, r)
    IN  [g EXCEPT !.birds[i] =
            [X |-> Frac(r.birdX, M(ScreenWidth)),
             Y |-> IF y # 0 THEN y
                   ELSE -(BirdHeight * (M(5) + Frac(r.birdFallback, M(5)))),
             SpeedX |-> g.birdSpeedMin
                          + Frac(r.birdSpeed, g.birdSpeedMax - g.birdSpeedMin),
             Direction |-> DirectionOf(r.birdDir)]]

\* lines 1033-1080: the birds move down by diff, from index i on
RECURSIVE ScrollBirdsFrom(_, _, _, _)
ScrollBirdsFrom(g, i, diff, r) ==
    IF i > Len(g.birds) THEN g
    ELSE LET g1 == [g EXCEPT !.birds[i].Y = @ + diff]
         IN  ScrollBirdsFrom(
                 IF g1.birds[i].Y > M(ScreenHeight)
                 THEN [RecycleBird(g1, i, r)
                         EXCEPT !.ev.birdsRecycled = @ \cup {i},
                                !.ev.birdsSeen = @ \cup {<< i, g1.birds >>}]
                 ELSE g1,
                 i + 1, diff, r)

\* ScrollCloud with the clouds as a far layer, moving by half of diff
ScrollCloudParallax(c, diff, r) ==
    LET y == c.Y + diff \div 2
    IN  IF y > M(ScreenHeight)
        THEN [c EXCEPT !.Y = M(-CloudHeight),
                       !.X = Frac(r.cloudX, M(ScreenWidth)),
                       !.SpeedX = CloudSpeedMin
                                    + Frac(r.cloudSpeed, CloudSpeedMax - CloudSpeedMin),
                       !.Alpha = 500 + Frac(r.cloudAlpha, 500)]
        ELSE [c EXCEPT !.Y = y]

\* lines 1082-1093: the clouds move down by diff
ScrollCloud(c, diff, r) ==
    LET y == c.Y + diff
    IN  IF y > M(ScreenHeight)
        THEN [c EXCEPT !.Y = M(-CloudHeight),
                       !.X = Frac(r.cloudX, M(ScreenWidth)),
                       !.SpeedX = CloudSpeedMin
                                    + Frac(r.cloudSpeed, CloudSpeedMax - CloudSpeedMin),
                       !.Alpha = 500 + Frac(r.cloudAlpha, 500)]
        ELSE [c EXCEPT !.Y = y]

\* ScreenHeight * 0.4
HighPoint == (M(ScreenHeight) * 4) \div 10

\* lines 942-1094: the camera follows a player above the high point
CameraFollow(g, r) ==
    IF g.player.Y < HighPoint
    THEN LET diff == HighPoint - g.player.Y
             g1 == [g EXCEPT !.camera = @ + diff,
                             !.player.Y = @ + diff,
                             !.ev.scrolled = TRUE]
             g2 == ScrollPlatformsFrom(g1, 1, diff, r)
             g3 == ScrollBirdsFrom(g2, 1, diff, r)
         IN  [g3 EXCEPT !.clouds =
                 [i \in 1..Len(g3.clouds) |-> ScrollCloud(g3.clouds[i], diff, r)],
                        !.ev.cloudsRecycled =
                 {i \in 1..Len(g3.clouds) : g3.clouds[i].Y + diff > M(ScreenHeight)}]
    ELSE g

\* CheckFall that waits until the whole player is below the screen
CheckFallWhole(g) ==
    IF g.player.Y - M(PlayerHeight) \div 2 > M(ScreenHeight)
    THEN [g EXCEPT !.gameOver = TRUE]
    ELSE g

\* lines 1096-1099: falling below the screen ends the game
CheckFall(g) ==
    IF g.player.Y > M(ScreenHeight) THEN [g EXCEPT !.gameOver = TRUE] ELSE g

\* ticks since platform i started Breaking (-1: it has not, since it was last
\* put at the top); a history of the run, read by no step of the program
AgeBreaks(g) ==
    [g EXCEPT !.breakAge =
        [i \in 1..Len(g.platforms) |->
            IF i \in g.ev.recycled THEN -1
            ELSE IF g.ev.hit = i /\ g.ev.hitKind = "break" THEN 0
            ELSE IF i \in DOMAIN g.breakAge /\ g.breakAge[i] >= 0
                 THEN g.breakAge[i] + 1
            ELSE -1]]

\* ticks since flight was granted, i.e. since the fly timer was last set to
\* FlyDuration (lines 802, 843); a history of the run
AgeFlight(g) ==
    [g EXCEPT !.ev.flyAge = IF ~g.player.CanFly THEN -1
                            ELSE IF g.player.FlyTimer = FlyDuration THEN 0
                            ELSE @ + 1]

\* Update whose camera scroll comes before the platform loop
UpdateScrollFirst(g, keys, prev, r) ==
    LET s0  == [g EXCEPT !.ev = [NoEvents EXCEPT !.keys = keys,
                                                 !.prev = prev,
                                                 !.weatherWas = g.weather,
                                                 !.boostsTaken = g.ev.boostsTaken,
                                                 !.flyAge = g.ev.flyAge],
                         !.gameTime = F64Add(@, TickStep)]
        s1  == ToggleWeather(s0, keys, prev)
        s2  == UpdateWeatherTimer(s1, r)
        s3  == UpdateParticles(SpawnParticle(s2, r))
        s4  == CameraFollow(HandleStickyRelease(s3, keys), r)
        s5  == UpdateStuck(UpdatePlatforms(s4))
        s6  == UpdateBoosts(UpdateTimers(s5))
        s7  == MoveRight(MoveLeft(s6, keys), keys)
        s8  == Shoot(ToggleFly(Fly(s7, keys), keys, prev), keys, prev)
        s9  == ApplyGravity(s8)
        s10 == UpdateBirds(UpdateClouds(UpdateBullets(s9)))
        s11 == CheckFall(s10)
    IN  AgeFlight(AgeBreaks(s11))

\* Update with its steps in another order: gravity, horizontal movement,
\* flight, platform collision, camera scroll, birds, bullets, boost pickup,
\* fall check (the timers run first)
UpdateGravityFirst(g, keys, prev, r) ==
    LET s0  == [g EXCEPT !.ev = [NoEvents EXCEPT !.keys = keys,
                                                 !.prev = prev,
                                                 !.weatherWas = g.weather,
                                                 !.boostsTaken = g.ev.boostsTaken,
                                                 !.flyAge = g.ev.flyAge],
                         !.gameTime = F64Add(@, TickStep)]
        s1  == ToggleWeather(s0, keys, prev)
        s2  == UpdateWeatherTimer(s1, r)
        s3  == UpdateParticles(SpawnParticle(s2, r))
        s4  == UpdateTimers(HandleStickyRelease(s3, keys))
        s5  == ApplyGravity(s4)
        s6  == MoveRight(MoveLeft(s5, keys), keys)
        s7  == Shoot(ToggleFly(Fly(s6, keys), keys, prev), keys, prev)
        s8  == UpdateStuck(UpdatePlatforms(s7))
        s9  == CameraFollow(s8, r)
        s10 == UpdateBullets(UpdateBirds(UpdateClouds(s9)))
        s11 == CheckFall(UpdateBoosts(s10))
    IN  AgeFlight(AgeBreaks(s11))

\* lines 636-1101: one Update of a session that is not over
Update(g, keys, prev, r) ==
    LET s0  == [g EXCEPT !.ev = [NoEvents EXCEPT !.keys = keys,
                                                 !.prev = prev,
                                                 !.weatherWas = g.weather,
                                                 !.boostsTaken = g.ev.boostsTaken,
                                                 !.flyAge = g.ev.flyAge],
                         !.gameTime = F64Add(@, TickStep)]
        s1  == ToggleWeather(s0, keys, prev)
        s2  == UpdateWeatherTimer(s1, r)
        s3  == UpdateParticles(SpawnParticle(s2, r))
        s4  == HandleStickyRelease(s3, keys)
        s5  == UpdateStuck(UpdatePlatforms(s4))
        s6  == UpdateBoosts(UpdateTimers(s5))
        s7  == MoveRight(MoveLeft(s6, keys), keys)
        s8  == Shoot(ToggleFly(Fly(s7, keys), keys, prev), keys, prev)
        s9  == ApplyGravity(s8)
        s10 == UpdateBirds(UpdateClouds(UpdateBullets(s9)))
        s11 == CheckFall(CameraFollow(s10, r))
    IN  AgeFlight(AgeBreaks(s11))

\* the Update that reads gameTime off the wall clock instead of adding 1/60
UpdateGameClock(g, keys, prev, r, nd, hour) ==
    IF g.gameOver
    THEN IF Pressed(keys, "Space") THEN NewGame(nd, hour) ELSE g
    ELSE [Update(g, keys, prev, r) EXCEPT !.gameTime = F64Seconds(hour)]

\* the Update whose game time runs on in a session that is over
UpdateGameTimeRuns(g, keys, prev, r, nd, hour) ==
    IF g.gameOver
    THEN IF Pressed(keys, "Space")
         THEN NewGame(nd, hour)
         ELSE [g EXCEPT !.gameTime = F64Add(@, TickStep)]
    ELSE Update(g, keys, prev, r)

\* the Update whose restart puts the player back and keeps the rest
UpdateGameKeepWorld(g, keys, prev, r, nd, hour) ==
    IF g.gameOver
    THEN IF Pressed(keys, "Space")
         THEN [g EXCEPT !.player = NewGame(nd, hour).player, !.gameOver = FALSE]
         ELSE g
    ELSE Update(g, keys, prev, r)

\* lines 628-634 and the rest of Update: a session that is over waits for Space
UpdateGame(g, keys, prev, r, nd, hour) ==
    IF g.gameOver
    THEN IF Pressed(keys, "Space") THEN NewGame(nd, hour) ELSE g
    ELSE Update(g, keys, prev, r)

----------------------------------------------------------------------------
\* Draw (game.go, lines 1105-1512) and what it calls.  The time of day and
\* the fractions made of it are in 1/Milli units.

\* the times of the key colours of getGradientParams: Midnight, Pre-dawn,
\* Dawn, Morning, Noon, Afternoon, Sunset, Night
KeyTimes == << 0, 200, 300, 400, 500, 700, 800, 900 >>

\* lines 344-350: the loop over the key colours from index i (counted from
\* 0); idx is left at 0 when no key colour is later than the time of day
RECURSIVE KeyIdxFrom(_, _)
KeyIdxFrom(timeOfDay, i) ==
    IF i >= Len(KeyTimes) THEN 0
    ELSE IF timeOfDay < KeyTimes[i + 1] THEN i - 1
    ELSE KeyIdxFrom(timeOfDay, i + 1)

\* lines 343-356: the index of the earlier key colour of the pair in use
KeyIdx(timeOfDay) ==
    LET idx == KeyIdxFrom(timeOfDay, 0)
    IN  IF idx < 0 THEN 0
        ELSE IF idx >= Len(KeyTimes) - 1 THEN Len(KeyTimes) - 2
        ELSE idx

\* smoothstep: clamp to [0, 1], then x * x * (3 - 2x)
smoothstep(x) ==
    LET c == IF x < 0 THEN 0 ELSE IF x > Milli THEN Milli ELSE x
    IN  (c * c * (3 * Milli - 2 * c)) \div (Milli * Milli)

\* lines 359-360: the weight t of the later key colour of the pair idx
KeyProgress(timeOfDay, idx) ==
    smoothstep(((timeOfDay - KeyTimes[idx + 1]) * Milli)
                  \div (KeyTimes[idx + 2] - KeyTimes[idx + 1]))

\* line 1107: the time of day of a session; a point of score is 1/Milli day
TimeOfDay(g) == (g.score * (Milli \div DayCycleLength) + g.initialTimeOfDay) % Milli

\* line 1158: the stars are drawn
StarsDrawn(timeOfDay) == timeOfDay > SunsetStart \/ timeOfDay < SunriseEnd

\* lines 1160-1170: the visibility of the stars when they are drawn
StarAlpha(timeOfDay) ==
    IF timeOfDay > SunsetStart /\ timeOfDay < SunsetEnd
    THEN ((timeOfDay - SunsetStart) * Milli) \div (SunsetEnd - SunsetStart)
    ELSE IF timeOfDay > SunsetEnd \/ timeOfDay < SunriseStart
    THEN Milli
    ELSE IF timeOfDay < SunriseEnd
    THEN Milli - (timeOfDay * Milli) \div SunriseEnd
    ELSE 0

\* the values Draw takes from the random source for platform i: three rolls
\* and two more for each of the k that succeed when the player is stuck to
\* it (lines 1290-1297), two for the shake and four for each of five cracks
\* when it is breaking (lines 1320-1331)
RandsOfPlatform(g, i, k) ==
    LET p == g.platforms[i]
    IN  IF p.Type = PlatformDisappearing /\ p.State = PlatformBroken THEN 0
        ELSE IF p.Type = PlatformSticky
        THEN IF g.stuckToPlatform = i THEN 3 + 2 * k ELSE 0
        ELSE IF p.Type = PlatformDisappearing /\ p.State = PlatformBreaking
        THEN 2 + 5 * 4
        ELSE 0

\* lines 1261-1346: the values taken over the platforms from i on
RECURSIVE RandsOfDraw(_, _, _)
RandsOfDraw(g, i, k) ==
    IF i > Len(g.platforms) THEN 0
    ELSE RandsOfPlatform(g, i, k) + RandsOfDraw(g, i + 1, k)

\* what Draw puts on the screen, as far as the sky goes
DrawGame(g) ==
    LET timeOfDay == TimeOfDay(g)
        idx       == KeyIdx(timeOfDay)
    IN  [drawn |-> TRUE, timeOfDay |-> timeOfDay,
         idx |-> idx, t |-> KeyProgress(timeOfDay, idx),
         stars |-> StarsDrawn(timeOfDay),
         starAlpha |-> IF StarsDrawn(timeOfDay) THEN StarAlpha(timeOfDay) ELSE 0]

\* the screen before the first Draw
NoScreen ==
    [drawn |-> FALSE, timeOfDay |-> 0, idx |-> 0, t |-> 0, stars |-> FALSE,
     starAlpha |-> 0]

----------------------------------------------------------------------------
\* The session (the fields of Game); the input collaborator: the keys held in
\* the previous tick, the script of keys it plays and the ticks played; and
\* the random source: the seed that fixes the draws of the session.
VARIABLES player, platforms, birds, clouds, particles, boosts, bullets,
          score, difficulty, birdCount, birdSpeedMin, birdSpeedMax, camera,
          gameOver, startTime, nightMode, weatherTimer, weather, gameTime,
          initialTimeOfDay, stuckToPlatform, stuckTimer, jumpPressed,
          canJumpRelease, ev, breakAge,
          keysPrev, tick, script, seed, twin, screen, randTaken

gameVars == << player, platforms, birds, clouds, particles, boosts, bullets,
               score, difficulty, birdCount, birdSpeedMin, birdSpeedMax, camera,
               gameOver, startTime, nightMode, weatherTimer, weather, gameTime,
               initialTimeOfDay, stuckToPlatform, stuckTimer, jumpPressed,
               canJumpRelease, ev, breakAge >>

envVars == << keysPrev, tick, script, seed >>

\* the screen as the last Draw left it, and the number of values Draw has
\* taken from the random source since the seed was set
drawVars == << screen, randTaken >>

vars == << gameVars, envVars, twin, drawVars >>

Game ==
    [player |-> player, platforms |-> platforms, birds |-> birds,
     clouds |-> clouds, particles |-> particles, boosts |-> boosts,
     bullets |-> bullets, score |-> score, difficulty |-> difficulty,
     birdCount |-> birdCount, birdSpeedMin |-> birdSpeedMin,
     birdSpeedMax |-> birdSpeedMax, camera |-> camera, gameOver |-> gameOver,
     startTime |-> startTime, nightMode |-> nightMode,
     weatherTimer |-> weatherTimer, weather |-> weather, gameTime |-> gameTime,
     initialTimeOfDay |-> initialTimeOfDay,
     stuckToPlatform |-> stuckToPlatform, stuckTimer |-> stuckTimer,
     jumpPressed |-> jumpPressed, canJumpRelease |-> canJumpRelease,
     ev |-> ev, breakAge |-> breakAge]

SetGame(n) ==
    /\ player' = n.player /\ platforms' = n.platforms /\ birds' = n.birds
    /\ clouds' = n.clouds /\ particles' = n.particles /\ boosts' = n.boosts
    /\ bullets' = n.bullets /\ score' = n.score /\ difficulty' = n.difficulty
    /\ birdCount' = n.birdCount /\ birdSpeedMin' = n.birdSpeedMin
    /\ birdSpeedMax' = n.birdSpeedMax /\ camera' = n.camera
    /\ gameOver' = n.gameOver /\ startTime' = n.startTime
    /\ nightMode' = n.nightMode /\ weatherTimer' = n.weatherTimer
    /\ weather' = n.weather /\ gameTime' = n.gameTime
    /\ initialTimeOfDay' = n.initialTimeOfDay
    /\ stuckToPlatform' = n.stuckToPlatform /\ stuckTimer' = n.stuckTimer
    /\ jumpPressed' = n.jumpPressed /\ canJumpRelease' = n.canJumpRelease
    /\ ev' = n.ev /\ breakAge' = n.breakAge

InitGame(n) ==
    /\ player = n.player /\ platforms = n.platforms /\ birds = n.birds
    /\ clouds = n.clouds /\ particles = n.particles /\ boosts = n.boosts
    /\ bullets = n.bullets /\ score = n.score /\ difficulty = n.difficulty
    /\ birdCount = n.birdCount /\ birdSpeedMin = n.birdSpeedMin
    /\ birdSpeedMax = n.birdSpeedMax /\ camera = n.camera
    /\ gameOver = n.gameOver /\ startTime = n.startTime
    /\ nightMode = n.nightMode /\ weatherTimer = n.weatherTimer
    /\ weather = n.weather /\ gameTime = n.gameTime
    /\ initialTimeOfDay = n.initialTimeOfDay
    /\ stuckToPlatform = n.stuckToPlatform /\ stuckTimer = n.stuckTimer
    /\ jumpPressed = n.jumpPressed /\ canJumpRelease = n.canJumpRelease
    /\ ev = n.ev /\ breakAge = n.breakAge

----------------------------------------------------------------------------
\* Bounds of the model.  The input collaborator plays a script: segments of a
\* key set held for a number of ticks, played once (then no key is held) or
\* in a loop, for at most MaxTicks ticks of a session (MaxClimbTicks for the
\* long climb).
MaxTicks == 200
MaxClimbTicks == 3000
MaxHopTicks == 700

Script(segs, loop, ticks) == [segs |-> segs, loop |-> loop, ticks |-> ticks]

RECURSIVE SegTicks(_, _)
SegTicks(segs, k) == IF k > Len(segs) THEN 0 ELSE segs[k][2] + SegTicks(segs, k + 1)

RECURSIVE KeysIn(_, _, _)
KeysIn(segs, k, t) ==
    IF k > Len(segs) THEN {}
    ELSE IF t <= segs[k][2] THEN segs[k][1]
    ELSE KeysIn(segs, k + 1, t - segs[k][2])

\* the keys script sc holds in its tick t (from 1)
KeysAt(sc, t) ==
    IF sc.loop
    THEN KeysIn(sc.segs, 1, ((t - 1) % SegTicks(sc.segs, 1)) + 1)
    ELSE KeysIn(sc.segs, 1, t)

\* The scripts: no key; flight; left; flight to the left and to the right;
\* flight into the left edge with both directions held there; up without
\* flight; a late up; flight that begins on the way down; shooting; the
\* weather key; and the long climb, in which F is pressed again and again.
ScriptNone == Script(<< >>, FALSE, MaxTicks)
ScriptFly == Script(<< << {"Up", "F"}, MaxTicks >> >>, FALSE, MaxTicks)
ScriptLeft == Script(<< << {"A"}, MaxTicks >> >>, FALSE, MaxTicks)
ScriptFlyLeft == Script(<< << {"Up", "F", "A"}, MaxTicks >> >>, FALSE, MaxTicks)
ScriptFlyRight == Script(<< << {"Up", "F", "D"}, MaxTicks >> >>, FALSE, MaxTicks)
ScriptEdge ==
    Script(<< << {"Up", "F", "Left"}, 53 >>,
              << {"Up", "F", "Left", "Right"}, 5 >>,
              << {"Up", "Right"}, 60 >> >>, FALSE, MaxTicks)
ScriptUp == Script(<< << {"Up"}, MaxTicks >> >>, FALSE, MaxTicks)
ScriptLateUp == Script(<< << {}, 30 >>, << {"Up"}, 5 >> >>, FALSE, MaxTicks)
ScriptLateFly == Script(<< << {}, 20 >>, << {"Up", "F"}, 5 >> >>, FALSE, MaxTicks)
ScriptShoot == Script(<< << {"Space"}, 1 >>, << {}, 29 >> >>, TRUE, MaxTicks)
ScriptWeather == Script(<< << {"W"}, 1 >>, << {}, 9 >> >>, TRUE, MaxTicks)
ScriptClimb == Script(<< << {"Up", "F"}, 1 >>, << {"Up"}, 1 >> >>, TRUE, MaxClimbTicks)
\* a flight, a fall onto the platforms met on the way, and Up pressed anew
\* now and then, which releases a stuck player
ScriptHop ==
    Script(<< << {"Up", "F"}, 1 >>, << {"Up"}, 160 >>, << {}, 120 >>,
              << {"Up"}, 1 >>, << {}, 120 >>, << {"Up"}, 1 >>, << {}, 150 >>,
              << {"Up"}, 1 >>, << {}, 60 >>, << {"Up"}, 1 >>, << {}, 60 >>,
              << {"Up"}, 1 >>, << {}, 60 >> >>, FALSE, MaxHopTicks)

Scripts ==
    { ScriptNone, ScriptFly, ScriptLeft, ScriptFlyLeft, ScriptFlyRight, ScriptEdge, ScriptUp,
      ScriptLateUp, ScriptLateFly, ScriptShoot, ScriptWeather, ScriptClimb,
      ScriptHop }

\* the scripts of the two runs that are compared tick by tick
TwinScripts == { ScriptNone, ScriptFly, ScriptEdge, ScriptShoot, ScriptWeather }

\* the wall clock's hour at construction
Hours == {3, 12}

\* the draws of one NewGame: every platform above the first lies under the
\* player, or only the lowest of them does (slice index 9); that one is
\* Normal, Sticky or Disappearing; the bird is off the player's column or in
\* it
NewGameDraws ==
    { [weatherSecs |-> c[1], timeOfDay |-> 0,
       platType |-> << 500, 500, 500, 500, 500, 500, 500, 500, c[2] >>,
       platX |-> c[4],
       birdDir |-> 0, birdX |-> c[3], birdY |-> 750, birdSpeed |-> 0,
       cloud |-> << 0, 500 >>]
      : c \in { << 14, 500, 0, << 500 >> >>,
                << 0, 100, 500, << 500 >> >>,
                << 14, 250, 0, << 500 >> >>,
                << 14, 250, 0, << 0, 0, 0, 0, 0, 0, 0, 0, 500 >> >> } }

\* The seeds of the random source: the tables of a session's draws.  A draw
\* of the recycle code is indexed by the score and one of the weather code by
\* the tick, so the draws of the same kind within one Update are equal.
Seeds ==
    { [weatherIntn |-> << WeatherRain, WeatherSnow, WeatherClear >>,
       weatherSecs |-> << 0 >>,
       particleRoll |-> << 0 >>, particle |-> << 500, 500, 500, 500, 500 >>,
       platX |-> << 500 >>, platType |-> << 500, 100, 250 >>,
       boostRoll |-> << 0, 999 >>, boostIntn |-> << 2, 0, 1 >>,
       birdDir |-> << 0 >>, birdX |-> << 0 >>, birdSpeed |-> << 0 >>,
       birdYIntn |-> << 0, 1, 2 >>, birdFallback |-> << 0 >>,
       cloudX |-> << 0 >>, cloudSpeed |-> << 0 >>, cloudAlpha |-> << 0 >>] }

\* the draws the seed sd gives an Update of a session with score sc in tick t
DrawsAt(sd, sc, t) ==
    [weatherIntn |-> Cyc(sd.weatherIntn, t), weatherSecs |-> Cyc(sd.weatherSecs, t),
     particleRoll |-> Cyc(sd.particleRoll, t), particle |-> sd.particle,
     platX |-> Cyc(sd.platX, sc + 1), platType |-> Cyc(sd.platType, sc + 1),
     boostRoll |-> Cyc(sd.boostRoll, sc + 1), boostIntn |-> Cyc(sd.boostIntn, sc + 1),
     birdDir |-> Cyc(sd.birdDir, sc + 1), birdX |-> Cyc(sd.birdX, sc + 1),
     birdSpeed |-> Cyc(sd.birdSpeed, sc + 1),
     birdYIntn |-> sd.birdYIntn, birdFallback |-> Cyc(sd.birdFallback, sc + 1),
     cloudX |-> Cyc(sd.cloudX, sc + 1), cloudSpeed |-> Cyc(sd.cloudSpeed, sc + 1),
     cloudAlpha |-> Cyc(sd.cloudAlpha, sc + 1)]

----------------------------------------------------------------------------
\* The host calls Update once per tick with the keys then held.  The wall
\* clock's hour does not change within a session.
Init ==
    /\ \E nd \in NewGameDraws, hour \in Hours : InitGame(NewGame(nd, hour))
    /\ keysPrev = {}
    /\ tick = 0
    /\ script \in Scripts
    /\ seed \in Seeds
    /\ twin = << >>
    /\ screen = NoScreen
    /\ randTaken = 0

\* what the Update of tick + 1 makes of session g, read at the clock's hour
\* (the random source is one: the draws are those that follow the values
\* Draw has taken)
TickOf(g, hour) ==
    UpdateGame(g, KeysAt(script, tick + 1), keysPrev,
               DrawsAt(seed, g.score + randTaken, tick + 1 + randTaken),
               << >>, hour)

\* Update of a session that is not over
Tick ==
    /\ ~gameOver
    /\ tick < script.ticks
    /\ SetGame(TickOf(Game, startTime))
    /\ keysPrev' = KeysAt(script, tick + 1)
    /\ tick' = tick + 1
    /\ UNCHANGED << script, seed, twin, drawVars >>

\* Update of a session that is over, with Space held: a new session
Restart ==
    /\ gameOver
    /\ \E nd \in NewGameDraws, hour \in Hours :
          SetGame(UpdateGame(Game, {"Space"}, keysPrev, << >>, nd, hour))
    /\ keysPrev' = {"Space"}
    /\ tick' = 0
    /\ script' \in Scripts
    /\ seed' \in Seeds
    /\ UNCHANGED << twin, drawVars >>

\* the key sets held over a session that is over, Space not among them
IdleKeys == { {}, {"Up", "W"}, {"Left", "F", "N"} }

\* Update of a session that is over, without Space
Idle ==
    /\ gameOver
    /\ \E keys \in IdleKeys :
          /\ SetGame(UpdateGame(Game, keys, keysPrev, << >>, << >>, startTime))
          /\ keysPrev' = keys
    /\ UNCHANGED << tick, script, seed, twin, drawVars >>

Next == Tick \/ Restart \/ Idle

Spec == Init /\ [][Next]_vars

----------------------------------------------------------------------------
\* Two runs side by side: the session and its twin are built from the same
\* draws and are given the same keys and the same draws in every tick; each
\* reads its own wall clock.
InitTwin ==
    /\ \E nd \in NewGameDraws, hour \in Hours, hourTwin \in Hours :
          /\ InitGame(NewGame(nd, hour))
          /\ twin = NewGame(nd, hourTwin)
    /\ screen = NoScreen
    /\ randTaken = 0
    /\ keysPrev = {}
    /\ tick = 0
    /\ script \in TwinScripts
    /\ seed \in Seeds

TwinTick ==
    /\ ~gameOver
    /\ tick < script.ticks
    /\ SetGame(TickOf(Game, startTime))
    /\ twin' = TickOf(twin, twin.startTime)
    /\ keysPrev' = KeysAt(script, tick + 1)
    /\ tick' = tick + 1
    /\ UNCHANGED << script, seed, drawVars >>

TwinRestart ==
    /\ gameOver
    /\ \E nd \in NewGameDraws, hour \in Hours, hourTwin \in Hours :
          /\ SetGame(UpdateGame(Game, {"Space"}, keysPrev, << >>, nd, hour))
          /\ twin' = UpdateGame(twin, {"Space"}, keysPrev, << >>, nd, hourTwin)
    /\ keysPrev' = {"Space"}
    /\ tick' = 0
    /\ script' \in TwinScripts
    /\ seed' \in Seeds
    /\ UNCHANGED drawVars

TwinIdle ==
    /\ gameOver
    /\ SetGame(UpdateGame(Game, {}, keysPrev, << >>, << >>, startTime))
    /\ twin' = UpdateGame(twin, {}, keysPrev, << >>, << >>, twin.startTime)
    /\ keysPrev' = {}
    /\ UNCHANGED << tick, script, seed, drawVars >>

NextTwin == TwinTick \/ TwinRestart \/ TwinIdle

SpecTwin == InitTwin /\ [][NextTwin]_vars

----------------------------------------------------------------------------
\* Sessions under the sky: the weather key pressed once (rain) or twice
\* (snow) and then left alone, the weather and the night key pressed again
\* and again, and a walk to the left that ends in a fall.
ScriptRain == Script(<< << {"W"}, 1 >> >>, FALSE, MaxTicks)
ScriptSnow == Script(<< << {"W"}, 1 >>, << {}, 1 >>, << {"W"}, 1 >> >>, FALSE, MaxTicks)
ScriptSky == Script(<< << {"W", "N"}, 1 >>, << {}, 9 >> >>, TRUE, MaxTicks)

SkyScripts == { ScriptRain, ScriptSnow, ScriptSky, ScriptLeft }

\* the draws of one NewGame under the sky: the weather countdown starts at
\* 0 s, at 1 s or at 14 s; the platforms are Normal and the bird is off the player's
\* column
SkyDraws ==
    { [weatherSecs |-> w, timeOfDay |-> 0,
       platType |-> << 500, 500, 500, 500, 500, 500, 500, 500, 500 >>,
       platX |-> << 500 >>,
       birdDir |-> 0, birdX |-> 0, birdY |-> 750, birdSpeed |-> 0,
       cloud |-> << 0, 500 >>]
      : w \in { 0, 1, 14 } }

\* the seeds under the sky: every spawn roll succeeds; the particles are the
\* slowest, middling or the fastest of their kind; the weather drawn when
\* the countdown runs out is Rain, Snow, Clear in turn, or Clear
SkySeeds ==
    { [weatherIntn |-> c[1],
       weatherSecs |-> << 0 >>,
       particleRoll |-> << 0 >>, particle |-> << 500, 500, c[2], 500, 500 >>,
       platX |-> << 500 >>, platType |-> << 500 >>,
       boostRoll |-> << 999 >>, boostIntn |-> << 0 >>,
       birdDir |-> << 0 >>, birdX |-> << 0 >>, birdSpeed |-> << 0 >>,
       birdYIntn |-> << 0, 1, 2 >>, birdFallback |-> << 0 >>,
       cloudX |-> << 0 >>, cloudSpeed |-> << 0 >>, cloudAlpha |-> << 0 >>]
      : c \in { << << WeatherRain, WeatherSnow, WeatherClear >>, 0 >>,
                << << WeatherClear >>, 500 >>,
                << << WeatherRain, WeatherSnow, WeatherClear >>, 999 >> } }

InitSky ==
    /\ \E nd \in SkyDraws, hour \in Hours : InitGame(NewGame(nd, hour))
    /\ keysPrev = {}
    /\ tick = 0
    /\ script \in SkyScripts
    /\ seed \in SkySeeds
    /\ twin = << >>
    /\ screen = NoScreen
    /\ randTaken = 0

\* Update of a session that is over, with Space held: a new session
SkyRestart ==
    /\ gameOver
    /\ \E nd \in SkyDraws, hour \in Hours :
          SetGame(UpdateGame(Game, {"Space"}, keysPrev, << >>, nd, hour))
    /\ keysPrev' = {"Space"}
    /\ tick' = 0
    /\ script' \in SkyScripts
    /\ seed' \in SkySeeds
    /\ UNCHANGED << twin, drawVars >>

NextSky == Tick \/ SkyRestart \/ Idle

SpecSky == InitSky /\ [][NextSky]_vars

----------------------------------------------------------------------------
\* The session among the birds: the player climbs in flight and shoots
\* whenever the cooldown allows, to the right or (moving left) to the left.
ScriptClimbShoot ==
    Script(<< << {"Up", "F", "Space"}, 1 >>, << {"Up"}, 1 >> >>, TRUE, MaxClimbTicks)
ScriptShootLeft ==
    Script(<< << {"Up", "F", "A", "Space"}, 1 >>, << {"Up", "A"}, 1 >> >>, TRUE, MaxTicks)

BirdScripts == { ScriptClimbShoot, ScriptShootLeft }

\* the draws of NewGame among the birds: the first bird starts at the top,
\* at 84 or at 168, at the left edge, flying left
BirdDraws ==
    { [weatherSecs |-> 14, timeOfDay |-> 0,
       platType |-> << 500 >>, platX |-> << 500 >>,
       birdDir |-> 0, birdX |-> 0, birdY |-> y, birdSpeed |-> 0,
       cloud |-> << 0, 500 >>]
      : y \in { 0, 350, 700 } }

\* the seeds among the birds: no boost; the heights tried for a recycled
\* bird are -BirdHeight, -2*BirdHeight, -3*BirdHeight in turn, or
\* -BirdHeight ten times over; its speed is the lowest of the range, or the
\* lowest and the highest in turn
BirdSeeds ==
    { [weatherIntn |-> << WeatherClear >>,
       weatherSecs |-> << 0 >>,
       particleRoll |-> << 0 >>, particle |-> << 500, 500, 500, 500, 500 >>,
       platX |-> << 500 >>, platType |-> << 500 >>,
       boostRoll |-> << 999 >>, boostIntn |-> << 0 >>,
       birdDir |-> << 0 >>, birdX |-> << 0 >>, birdSpeed |-> c[2],
       birdYIntn |-> c[1], birdFallback |-> << 500 >>,
       cloudX |-> << 0 >>, cloudSpeed |-> << 0 >>, cloudAlpha |-> << 0 >>]
      : c \in { << << 0, 1, 2 >>, << 0 >> >>,
                << << 0 >>, << 0 >> >>,
                << << 0, 1, 2 >>, << 0, 999 >> >> } }

InitBirds ==
    /\ \E nd \in BirdDraws, hour \in Hours : InitGame(NewGame(nd, hour))
    /\ keysPrev = {}
    /\ tick = 0
    /\ script \in BirdScripts
    /\ seed \in BirdSeeds
    /\ twin = << >>
    /\ screen = NoScreen
    /\ randTaken = 0

\* Update of a session that is over, with Space held: a new session
BirdsRestart ==
    /\ gameOver
    /\ \E nd \in BirdDraws, hour \in Hours :
          SetGame(UpdateGame(Game, {"Space"}, keysPrev, << >>, nd, hour))
    /\ keysPrev' = {"Space"}
    /\ tick' = 0
    /\ script' \in BirdScripts
    /\ seed' \in BirdSeeds
    /\ UNCHANGED << twin, drawVars >>

NextBirds == Tick \/ BirdsRestart \/ Idle

SpecBirds == InitBirds /\ [][NextBirds]_vars

----------------------------------------------------------------------------
\* The environment of the screen: the host calls Draw between the Updates.
\* Beside the session runs its twin, which is given the draws of a random
\* source that no Draw has taken from.

MaxDrawTicks == 70
MaxRandTaken == 1

\* W held from the first tick: rain; no key; and left, off the platforms
ScriptDrawRain == Script(<< << {"W"}, 1 >> >>, FALSE, MaxDrawTicks)
ScriptDrawNone == Script(<< >>, FALSE, MaxDrawTicks)
ScriptDrawLeft == Script(<< << {"A"}, MaxDrawTicks >> >>, FALSE, MaxDrawTicks)
DrawScripts == { ScriptDrawRain, ScriptDrawNone, ScriptDrawLeft }

\* the times of day at which a session starts, in 1/Milli day
DrawTimes ==
    { 0, 1, 100, 199, 200, 201, 450, 699, 700, 701, 800, 899, 900, 901, 950, 999 }

\* the draws of one NewGame before the screen: any of the times of day over
\* Normal platforms, and two of them with a Sticky or a Disappearing platform
\* under the player
DrawDraws ==
    { [weatherSecs |-> 1, timeOfDay |-> c[1],
       platType |-> << 500, 500, 500, 500, 500, 500, 500, 500, c[2] >>,
       platX |-> << 500 >>,
       birdDir |-> 0, birdX |-> 0, birdY |-> 750, birdSpeed |-> 0,
       cloud |-> << 0, 500 >>]
      : c \in (DrawTimes \X { 500 }) \cup ({ 0, 900 } \X { 100, 250 }) }

\* the seed before the screen: one spawn roll in three succeeds, and the
\* weather drawn goes round
DrawSeeds ==
    { [weatherIntn |-> << WeatherRain, WeatherSnow, WeatherClear >>,
       weatherSecs |-> << 0 >>,
       particleRoll |-> << 0, 999, 999 >>, particle |-> << 500, 500, 500, 500, 500 >>,
       platX |-> << 500 >>, platType |-> << 500 >>,
       boostRoll |-> << 999 >>, boostIntn |-> << 0 >>,
       birdDir |-> << 0 >>, birdX |-> << 0 >>, birdSpeed |-> << 0 >>,
       birdYIntn |-> << 0, 1, 2 >>, birdFallback |-> << 0 >>,
       cloudX |-> << 0 >>, cloudSpeed |-> << 0 >>, cloudAlpha |-> << 0 >>] }

\* how many of the three rolls of the sticky effect succeed
DrawRolls == { 0, 1, 3 }

InitDraw ==
    /\ \E nd \in DrawDraws :
          /\ InitGame(NewGame(nd, 12))
          /\ twin = NewGame(nd, 12)
    /\ keysPrev = {}
    /\ tick = 0
    /\ script \in DrawScripts
    /\ seed \in DrawSeeds
    /\ screen = NoScreen
    /\ randTaken = 0

\* Update of the session, and of its twin with the draws untouched by Draw
DrawTick ==
    /\ ~gameOver
    /\ tick < script.ticks
    /\ SetGame(TickOf(Game, startTime))
    /\ keysPrev' = KeysAt(script, tick + 1)
    /\ tick' = tick + 1
    /\ UNCHANGED << script, seed, drawVars >>
    /\ twin' = UpdateGame(twin, KeysAt(script, tick + 1), keysPrev,
                          DrawsAt(seed, twin.score, tick + 1), << >>,
                          twin.startTime)

\* Draw: the session is read, the screen is written, and the random source
\* gives what the platforms' effects ask of it
Draw ==
    /\ randTaken < MaxRandTaken
    /\ screen' = DrawGame(Game)
    /\ \E k \in DrawRolls : randTaken' = randTaken + RandsOfDraw(Game, 1, k)
    /\ UNCHANGED << gameVars, envVars, twin >>

\* Update of a session that is over, with Space held: a new session and a
\* new twin of it
DrawRestart ==
    /\ gameOver
    /\ \E nd \in DrawDraws :
          /\ SetGame(UpdateGame(Game, {"Space"}, keysPrev, << >>, nd, 12))
          /\ twin' = NewGame(nd, 12)
    /\ keysPrev' = {"Space"}
    /\ tick' = 0
    /\ script' \in DrawScripts
    /\ seed' \in DrawSeeds
    /\ randTaken' = 0
    /\ UNCHANGED screen

NextDraw == DrawTick \/ Draw \/ DrawRestart \/ Idle

SpecDraw == InitDraw /\ [][NextDraw]_vars

----------------------------------------------------------------------------
\* Properties of the session.

\* C1: after NewGame and after every Update, restarts included, the platform
\* collection holds exactly PlatformCount = 10 platforms: a recycle puts a
\* platform back in place and none is appended or removed.
C1_PlatformCount ==
    /\ Len(platforms) = PlatformCount
    /\ DOMAIN platforms = 1..PlatformCount

\* a platform has just been recycled and there are still ten
C1_Witness ==
    /\ ev.recycled # {}
    /\ score >= 1
    /\ Len(platforms) = PlatformCount

\* C2: at every tick boundary the number of birds is birdCount, which is
\* min(InitialBirdCount + difficulty, MaxBirdCount) and at most 8; a session
\* starts with one bird and has two after the 20th recycle; within a session
\* birds are appended and never removed.
C2_BirdCount ==
    /\ [](/\ Len(birds) = birdCount
          /\ birdCount = Min(InitialBirdCount + difficulty, MaxBirdCount)
          /\ Len(birds) <= 8
          /\ (score = 0 => Len(birds) = 1)
          /\ (score = ScorePerDifficulty => Len(birds) = 2))
    /\ [][~gameOver => Len(birds') >= Len(birds)]_vars

\* the cap is in force: the difficulty is past 7 and there are eight birds
C2_Witness ==
    /\ difficulty > MaxBirdCount - InitialBirdCount
    /\ Len(birds) = MaxBirdCount
    /\ ev.recycled # {}

\* C3: at every tick boundary, after NewGame and after every Update,
\* difficulty is floor(score / 20).
C3_Difficulty ==
    /\ difficulty * ScorePerDifficulty <= score
    /\ score < (difficulty + 1) * ScorePerDifficulty

\* the recycle that took the score to 40 has just raised the difficulty to 2
C3_Witness ==
    /\ ev.recycled # {}
    /\ score = 2 * ScorePerDifficulty
    /\ difficulty = 2

\* C4: within a session the score is a non-negative integer that never
\* decreases and rises by exactly one for each platform recycled in a tick
\* (a recycled platform is one whose Y went back up); the difficulty never
\* decreases from one tick to the next.
C4_ScoreMonotone ==
    [][~gameOver =>
         LET recycledNow ==
                 {i \in 1..PlatformCount : platforms'[i].Y < platforms[i].Y}
         IN  /\ score \in Nat
             /\ score' \in Nat
             /\ score' >= score
             /\ score' = score + Cardinality(recycledNow)
             /\ ev'.recycled = recycledNow
             /\ difficulty' >= difficulty]_vars

\* a recycle has just counted, in a session whose difficulty has risen
C4_Witness ==
    /\ Cardinality(ev.recycled) = 1
    /\ score > ScorePerDifficulty
    /\ difficulty >= 1
    /\ ~gameOver

\* C5: at every tick boundary birdSpeedMin = 0.7 + p * (2.5 - 0.7) and
\* birdSpeedMax = 1.5 + p * (4.0 - 1.5) with p = min(difficulty / 10, 1);
\* both lie in [0.7, 4.0], birdSpeedMin <= birdSpeedMax, neither decreases
\* within a session and both are constant from difficulty 10 on.
C5_SpeedRange ==
    /\ [](LET p10 == IF difficulty < 10 THEN difficulty ELSE 10
          IN  /\ 10 * birdSpeedMin = 10 * 700 + p10 * (2500 - 700)
              /\ 10 * birdSpeedMax = 10 * 1500 + p10 * (4000 - 1500)
              /\ 700 <= birdSpeedMin
              /\ birdSpeedMin <= birdSpeedMax
              /\ birdSpeedMax <= 4000
              /\ (difficulty >= 10 =>
                    birdSpeedMin = MaxBirdSpeedMin /\ birdSpeedMax = MaxBirdSpeedMax))
    /\ [][~gameOver =>
            birdSpeedMin' >= birdSpeedMin /\ birdSpeedMax' >= birdSpeedMax]_vars

\* past difficulty 10 the range is the final one
C5_Witness ==
    /\ difficulty > 10
    /\ birdSpeedMin = MaxBirdSpeedMin
    /\ birdSpeedMax = MaxBirdSpeedMax

C7_BrokenAfter18Ticks ==
    \A i \in 1..PlatformCount :
        /\ (breakAge[i] >= 0 /\ breakAge[i] < 18 =>
               platforms[i].State = PlatformBreaking)
        /\ (breakAge[i] >= 18 => platforms[i].State = PlatformBroken)

\* C8, as claimed: a tick that moves the player right past 320 leaves X = 0,
\* a tick that moves the player left past 0 leaves X = 320, and
\* 0 <= X <= 320 at every tick boundary.
C8_Wraps ==
    /\ (ev.wrapRight => player.X = 0)
    /\ (ev.wrapLeft => player.X = M(ScreenWidth))
    /\ player.X >= 0
    /\ player.X <= M(ScreenWidth)

\* C8, amended: a tick that moves the player right past 320 leaves X = 0; a
\* tick that moves the player left past 0 leaves X = 320 unless a right key
\* is held too, and then the move to the right, made from 320, wraps again
\* and leaves X = 0; 0 <= X <= 320 at every tick boundary, and a tick
\* without a wrap moves X by 0 or by 3.
C8_WrapsOneWay ==
    /\ [](LET rightHeld == ev.keys \cap {"Right", "D"} # {}
          IN  /\ (ev.wrapRight => player.X = 0)
              /\ (ev.wrapLeft /\ ~rightHeld => player.X = M(ScreenWidth))
              /\ (ev.wrapLeft /\ rightHeld => ev.wrapRight)
              /\ player.X >= 0
              /\ player.X <= M(ScreenWidth))
    /\ [][~gameOver /\ ~ev'.wrapLeft /\ ~ev'.wrapRight =>
            Abs(player'.X - player.X) \in {0, M(3)}]_vars

\* a tick with only a left key held has moved the player past 0 to 320
C8_Witness ==
    /\ ev.wrapLeft
    /\ ev.keys \cap {"Right", "D"} = {}
    /\ player.X = M(ScreenWidth)

\* C9, as claimed: the tick in which a falling player without a boost touches
\* a Normal platform leaves velocityY at exactly JumpVelocity.
C9_BounceLeavesJumpVelocity ==
    ev.hitKind = "bounce" /\ player.BoostType = BoostNone =>
        player.VelocityY = M(JumpVelocity)

\* C9, amended: the contact sets velocityY to JumpVelocity and the gravity
\* step of the same tick adds Gravity, so the tick leaves velocityY at
\* JumpVelocity + Gravity = -6.85; when the player flies in that tick (an up
\* key held with flight on) the fly step overwrites it and the tick leaves
\* -4 + Gravity = -3.85.
C9_BounceThenGravity ==
    ev.hitKind = "bounce" /\ player.BoostType = BoostNone =>
        player.VelocityY = IF ev.flew THEN M(-4) + Gravity
                                      ELSE M(JumpVelocity) + Gravity

\* a bounce off a Normal platform without flight
C9_Witness ==
    /\ ev.hitKind = "bounce"
    /\ platforms[ev.hit].Type = PlatformNormal
    /\ player.BoostType = BoostNone
    /\ ~ev.flew
    /\ player.VelocityY = M(JumpVelocity) + Gravity

\* C11: the number of particles never exceeds the cap of the current weather
\* (50 in Rain, 40 in Snow), and a tick adds at most one particle.
C11_ParticleCap ==
    /\ [](/\ weather = WeatherRain => Len(particles) <= RaindropCount
          /\ weather = WeatherSnow => Len(particles) <= SnowflakeCount)
    /\ [][Len(particles') <= Len(particles) + 1]_vars

\* the rain has filled its cap
C11_Witness == weather = WeatherRain /\ Len(particles) = RaindropCount /\ ~gameOver

C13_FallEndsGame == player.Y > M(ScreenHeight) => gameOver

\* a session ended by a fall, with no bird touched
C13_Witness ==
    /\ gameOver
    /\ player.Y > M(ScreenHeight)
    /\ ev.birdsHit = {}
    /\ tick >= 1

\* C14: an Update of a session that is over, with Space not held, changes
\* nothing: player, platforms, birds, clouds, particles, bullets, boosts,
\* score, difficulty, camera, game time, weather and its timer stay as they
\* are, and the session stays over.
C14_OverIsFrozen ==
    [][(gameOver /\ "Space" \notin keysPrev')
          => /\ UNCHANGED << player, platforms, birds, clouds, particles, bullets,
                             boosts, score, difficulty, camera, gameTime, weather,
                             weatherTimer >>
             /\ gameOver']_vars

\* a session that is over has been given an Update with other keys held
C14_Witness == gameOver /\ keysPrev = {"Left", "F", "N"} /\ tick >= 1

\* C15: an Update with Space held replaces a session that is over by a
\* freshly constructed one (score 0, difficulty 0, camera 0, one bird, bird
\* speeds 0.7 to 1.5, 10 platforms, no bullets, boosts or particles, weather
\* Clear, no boost, no flight, not stuck, player at (160, 380) at rest, not
\* over); in a session that is not over the same key resets nothing: the game
\* time runs on and score and camera do not fall.
C15_RestartIsFresh ==
    /\ [][(gameOver /\ "Space" \in keysPrev')
            => /\ score' = 0 /\ difficulty' = 0 /\ camera' = 0
               /\ Len(birds') = InitialBirdCount /\ birdCount' = InitialBirdCount
               /\ birdSpeedMin' = InitialBirdSpeedMin
               /\ birdSpeedMax' = InitialBirdSpeedMax
               /\ Len(platforms') = PlatformCount
               /\ bullets' = << >> /\ boosts' = << >> /\ particles' = << >>
               /\ weather' = WeatherClear
               /\ player'.BoostType = BoostNone
               /\ ~player'.CanFly /\ player'.FlyTimer = F64Zero
               /\ stuckToPlatform' = 0
               /\ player'.X = M(160) /\ player'.Y = M(380) /\ player'.VelocityY = 0
               /\ gameTime' = F64Zero
               /\ ~gameOver']_vars
    /\ [][(~gameOver /\ "Space" \in keysPrev')
            => /\ gameTime' = F64Add(gameTime, TickStep)
               /\ score' >= score
               /\ camera' >= camera]_vars

\* a session that was over has just been replaced by an Update with Space held
C15_Witness ==
    /\ keysPrev = {"Space"} /\ tick = 0
    /\ ~gameOver /\ score = 0 /\ camera = 0 /\ gameTime = F64Zero

\* C16: when the player overlaps a bird (a quarter of the player's size around
\* its position, the bird's full size) and the active boost is not Shield,
\* the session is over after the tick; a bird the tick found on the player
\* under no Shield has ended the session too.
C16_BirdEndsGame ==
    /\ (player.BoostType # BoostShield
          /\ \E i \in DOMAIN birds :
                /\ player.X + M(10) >= birds[i].X
                /\ player.X - M(10) <= birds[i].X + M(BirdWidth)
                /\ player.Y + M(10) >= birds[i].Y
                /\ player.Y - M(10) <= birds[i].Y + M(BirdHeight))
         => gameOver
    /\ (ev.birdsHit # {} /\ player.BoostType # BoostShield) => gameOver

\* a session ended by a bird while the player was on the screen
C16_Witness ==
    /\ gameOver
    /\ ev.birdsHit # {}
    /\ player.BoostType # BoostShield
    /\ player.Y <= M(ScreenHeight)
    /\ \E i \in ev.birdsHit : BirdOverlap(player, birds[i])

\* C17: a tick in which W is newly pressed leaves the successor, in the cycle
\* Clear, Rain, Snow, Clear, of the weather it found.
C17_WAdvancesWeather ==
    (~gameOver /\ tick >= 1 /\ "W" \in ev.keys /\ "W" \notin ev.prev)
        => weather = (ev.weatherWas + 1) % 3

\* C17 (amended): a tick in which W is newly pressed leaves the successor of
\* the weather it found unless the weather countdown runs out in the same
\* tick; then it leaves the weather drawn at random and no particle.
C17_WAdvancesUnlessDrawn ==
    (~gameOver /\ tick >= 1 /\ "W" \in ev.keys /\ "W" \notin ev.prev)
        => IF ev.weatherDrawn
           THEN /\ weather = DrawsAt(seed, score, tick).weatherIntn
                /\ weather \in {WeatherClear, WeatherRain, WeatherSnow}
           ELSE weather = (ev.weatherWas + 1) % 3

\* W has been pressed in the rain, with the countdown still running: snow
C17_Witness ==
    /\ ~gameOver /\ tick >= 1
    /\ "W" \in ev.keys /\ "W" \notin ev.prev
    /\ ~ev.weatherDrawn
    /\ ev.weatherWas = WeatherRain
    /\ weather = WeatherSnow

\* C18: a tick in which N is newly pressed leaves the night mode negated.
C18_NTogglesNight ==
    [][(~gameOver /\ "N" \in keysPrev' /\ "N" \notin keysPrev)
          => nightMode' = ~nightMode]_vars

\* C19: after any number of recycles the vertical gaps between the platforms,
\* taken cyclically over the height of the screen, are those of the initial
\* layout: a recycle does not change a platform's distance to the others.
C19_GapsAsInitially ==
    LET first == NewGame(CHOOSE nd \in NewGameDraws : TRUE, 12).platforms
        Gap(ps, i, j) == (ps[j].Y - ps[i].Y) % M(ScreenHeight)
    IN  \A i, j \in DOMAIN platforms : Gap(platforms, i, j) = Gap(first, i, j)

\* C20: a boost spawned at a recycle can be taken by touching it.  The
\* player of the long climb flies straight up the column in which its boosts
\* are spawned, past every platform that comes down: by the end of the climb
\* a boost has been taken.
C20_BoostTakenOnClimb ==
    (script = ScriptClimb /\ tick = MaxClimbTicks /\ Len(boosts) + ev.boostsTaken >= 100
        /\ \A i \in DOMAIN boosts :
              /\ player.X + M(PlayerWidth) \div 3 >= boosts[i].X
              /\ player.X - M(PlayerWidth) \div 3 <= boosts[i].X + M(PlatformWidth \div 2))
        => ev.boostsTaken >= 1

\* what the sessions show instead: no boost is ever taken; every boost stays
\* where it was spawned, 20 above the upper edge, and active
BoostsStayAloft ==
    /\ ev.boostsTaken = 0
    /\ player.BoostType = BoostNone
    /\ \A i \in DOMAIN boosts : boosts[i].Active /\ boosts[i].Y = M(-20)

C22_CollisionBeforeScroll ==
    [][(~gameOver /\ tick' = tick + 1
          /\ ev'.hitKind \in {"bounce", "break", "rebounce"} /\ ~ev'.flew)
          => LET v == JumpForce(player) + Gravity
                 y == player.Y + v
             IN  /\ player'.VelocityY = v
                 /\ IF y < HighPoint
                    THEN /\ camera' = camera + (HighPoint - y)
                         /\ player'.Y = HighPoint
                         /\ ev'.scrolled
                    ELSE /\ camera' = camera
                         /\ player'.Y = y
                         /\ ~ev'.scrolled]_vars

\* the tick that bounced the player has scrolled the camera too
C22_Witness ==
    /\ ~gameOver /\ tick >= 1
    /\ ev.hitKind \in {"bounce", "break", "rebounce"} /\ ~ev.flew
    /\ ev.scrolled
    /\ player.Y = HighPoint

C24_ReleaseOnFreshPress ==
    [][(~gameOver /\ tick' = tick + 1 /\ stuckToPlatform # 0)
          => LET jumpKeys == {"Up", "W", "Space"}
                 fresh == keysPrev' \cap jumpKeys # {} /\ keysPrev \cap jumpKeys = {}
             IN  /\ stuckToPlatform' = 0 <=> fresh
                 /\ fresh => player'.VelocityY =
                                 (IF ev'.flew THEN M(-4) ELSE (M(JumpVelocity) * 12) \div 10)
                                 + Gravity]_vars

\* a fresh press has just released the player: the impulse -8.4 and gravity
C24_Witness ==
    /\ ~gameOver /\ tick >= 1
    /\ stuckToPlatform = 0
    /\ ev.keys \cap {"Up", "W", "Space"} # {} /\ ev.prev \cap {"Up", "W", "Space"} = {}
    /\ ~ev.flew
    /\ player.VelocityY = M(-8) - 400 + Gravity

\* C25: a tick in which flight is enabled and Up is held adds no gravity: the
\* velocityY it leaves is exactly -4, and the player's Y has changed by
\* exactly -4 before the camera scroll.
C25_FlightWithoutGravity ==
    [][(~gameOver /\ tick' = tick + 1 /\ ev'.flew)
          => /\ player'.VelocityY = M(-4)
             /\ player'.Y + camera - camera' = player.Y + M(-4)]_vars

\* C26: flight is enabled only by a Jump boost: the flight flag turns from
\* false to true only in a tick in which the player picks up a Jump boost.
C26_FlightOnlyByJumpBoost ==
    [][(~gameOver /\ tick' = tick + 1 /\ ~player.CanFly /\ player'.CanFly)
          => /\ ev'.boostsTaken > ev.boostsTaken
             /\ player'.BoostType = BoostJump]_vars

\* C26 (amended): the flight flag turns from false to true only in a tick in
\* which F is newly pressed or a Jump boost is picked up; a press of F while
\* flight is enabled does not renew it; once granted the flag is on at the
\* end of the tick of the grant and of the 240 ticks that follow, and off at
\* the end of the 241st unless F is newly pressed in it.
C26_FlightByFOrJumpBoost ==
    /\ [][(~gameOver /\ tick' = tick + 1 /\ ~player.CanFly /\ player'.CanFly)
            => \/ ("F" \in keysPrev' /\ "F" \notin keysPrev)
               \/ (ev'.boostsTaken > ev.boostsTaken /\ player'.BoostType = BoostJump)]_vars
    /\ [][(~gameOver /\ tick' = tick + 1 /\ player.CanFly)
            => IF ev.flyAge < 240
               THEN player'.CanFly /\ ev'.flyAge = ev.flyAge + 1
               ELSE \/ ~player'.CanFly
                    \/ ("F" \in keysPrev' /\ "F" \notin keysPrev /\ ev'.flyAge = 0)]_vars
    /\ [](player.CanFly <=> ev.flyAge \in 0..240)

\* flight granted by F is in its last tick
C26_Witness ==
    /\ ~gameOver
    /\ player.CanFly /\ ev.flyAge = 240
    /\ player.BoostType = BoostNone /\ ev.boostsTaken = 0

\* C27: the platform collision is evaluated only while falling: a tick that
\* finds the player's velocityY <= 0 has no platform bounce or stick the
\* player and no platform go from Intact to Breaking, whatever the overlap;
\* the velocity it leaves is the one it found (or the flight velocity) plus
\* gravity.
C27_NoCollisionWhileRising ==
    [][(~gameOver /\ tick' = tick + 1 /\ player.VelocityY <= 0)
          => /\ ev'.hit = 0 /\ ev'.hitKind = "none"
             /\ stuckToPlatform' \in {0, stuckToPlatform}
             /\ \A i \in DOMAIN platforms :
                   ~(platforms[i].State = PlatformIntact
                       /\ platforms'[i].State = PlatformBreaking)
             /\ stuckToPlatform = 0
                   => player'.VelocityY =
                        (IF ev'.flew THEN M(-4) ELSE player.VelocityY) + Gravity]_vars

\* the rising player has passed through the band of a platform
C27_Witness ==
    /\ ~gameOver /\ tick >= 1
    /\ ev.overlapped # {} /\ ev.hit = 0
    /\ ~ev.flew
    /\ player.VelocityY < 0
    /\ \E i \in ev.overlapped : platforms[i].Type = PlatformNormal

\* C28: between two recycles a Disappearing platform bounces the player
\* exactly once: a contact gives a jump impulse only while the platform is
\* Intact, and starts Breaking; a platform that is Breaking or Broken stays
\* so until it is recycled, and no contact with it changes the player's
\* velocity (a player who was stuck to another platform may leave it with
\* the release jump); a Broken platform is passed through.
C28_OneBounce ==
    [][(~gameOver /\ tick' = tick + 1)
          => \A i \in DOMAIN platforms :
                platforms[i].Type = PlatformDisappearing
                   => /\ ev'.hit = i
                         => /\ platforms[i].State = PlatformIntact
                            /\ ev'.hitKind = "break"
                            /\ i \notin ev'.recycled
                                  => platforms'[i].State = PlatformBreaking
                            /\ stuckToPlatform' = 0
                                  => player'.VelocityY =
                                        (IF ev'.flew THEN M(-4) ELSE JumpForce(player))
                                        + Gravity
                      /\ (platforms[i].State # PlatformIntact /\ i \notin ev'.recycled)
                         => /\ platforms'[i].State # PlatformIntact
                            /\ ev'.hit # i
                            /\ (ev'.hit = 0 /\ stuckToPlatform' = 0
                                  /\ stuckToPlatform = 0)
                                  => player'.VelocityY =
                                        (IF ev'.flew THEN M(-4) ELSE player.VelocityY)
                                        + Gravity]_vars

\* the falling player has passed through a Broken platform
C28_Witness ==
    /\ ~gameOver /\ tick >= 1
    /\ ev.hit = 0 /\ ~ev.flew
    /\ player.VelocityY > Gravity
    /\ \E i \in ev.overlapped :
          /\ platforms[i].Type = PlatformDisappearing
          /\ platforms[i].State = PlatformBroken
          /\ breakAge[i] > 19

\* C29: the camera scroll pins the player.  At every tick boundary the
\* player's Y is at least HighPoint (192); the camera never decreases within a
\* session; and in a tick that scrolled, the player's Y is exactly HighPoint
\* afterwards, the camera grew by a positive diff, and every platform, bird
\* and cloud that was not put back above the screen in that tick (by the
\* scroll's recycle, a bullet or the Shield) has moved down by that same diff.
C29_ScrollPinsPlayer ==
    /\ [](player.Y >= HighPoint)
    /\ [][~gameOver =>
            LET diff == camera' - camera
            IN  /\ diff >= 0
                /\ ev'.scrolled <=> diff > 0
                /\ ev'.scrolled =>
                      /\ player'.Y = HighPoint
                      /\ \A i \in DOMAIN platforms :
                            i \notin ev'.recycled
                               => platforms'[i].Y = platforms[i].Y + diff
                      /\ \A i \in DOMAIN birds :
                            i \notin (ev'.birdsRecycled \cup ev'.birdsShot
                                         \cup ev'.birdsHit)
                               => birds'[i].Y = birds[i].Y + diff
                      /\ \A i \in DOMAIN clouds :
                            i \notin ev'.cloudsRecycled
                               => clouds'[i].Y = clouds[i].Y + diff]_vars

\* a tick has scrolled the world, putting a platform back at the top and
\* moving the other platforms, a bird and a cloud down with the player pinned
C29_Witness ==
    /\ ~gameOver /\ ev.scrolled
    /\ player.Y = HighPoint /\ camera > 0
    /\ ev.recycled # {} /\ ev.recycled # DOMAIN platforms
    /\ DOMAIN birds \ (ev.birdsRecycled \cup ev.birdsShot \cup ev.birdsHit) # {}
    /\ DOMAIN clouds \ ev.cloudsRecycled # {}

\* the elements of a sequence
Range(q) == {q[i] : i \in DOMAIN q}

\* C30: the camera scroll is the only mechanism that recycles.  In a tick
\* that did not scroll, every platform keeps its X, Y and Type, the score,
\* the difficulty, the bird count and the bird speed range are unchanged, no
\* boost is spawned (the boosts left are boosts there were, fewer by the
\* ones picked up), the number of birds is unchanged, and no bird or cloud
\* gets new attributes: a bird keeps its speed and direction and its Y
\* (or is at -2*BirdHeight, sent there by a bullet or the Shield), a cloud
\* keeps its Y, speed and transparency, and both only drift and wrap in X.
C30_OnlyScrollRecycles ==
    [][(~gameOver /\ tick' = tick + 1 /\ ~ev'.scrolled) =>
          /\ ev'.recycled = {} /\ ev'.birdsRecycled = {} /\ ev'.cloudsRecycled = {}
          /\ DOMAIN platforms' = DOMAIN platforms
          /\ \A i \in DOMAIN platforms :
                /\ platforms'[i].X = platforms[i].X
                /\ platforms'[i].Y = platforms[i].Y
                /\ platforms'[i].Type = platforms[i].Type
          /\ score' = score /\ difficulty' = difficulty
          /\ birdCount' = birdCount
          /\ birdSpeedMin' = birdSpeedMin /\ birdSpeedMax' = birdSpeedMax
          /\ Range(boosts') \subseteq Range(boosts)
          /\ Len(boosts') = Len(boosts) - (ev'.boostsTaken - ev.boostsTaken)
          /\ DOMAIN birds' = DOMAIN birds
          /\ \A i \in DOMAIN birds :
                /\ birds'[i].SpeedX = birds[i].SpeedX
                /\ birds'[i].Direction = birds[i].Direction
                /\ birds'[i].X \in {birds[i].X + birds[i].SpeedX * birds[i].Direction,
                                    M(ScreenWidth), M(-BirdWidth)}
                /\ \/ birds'[i].Y = birds[i].Y
                   \/ /\ i \in ev'.birdsShot \cup ev'.birdsHit
                      /\ birds'[i].Y = M(-BirdHeight * 2)
          /\ DOMAIN clouds' = DOMAIN clouds
          /\ \A i \in DOMAIN clouds :
                /\ clouds'[i].Y = clouds[i].Y
                /\ clouds'[i].SpeedX = clouds[i].SpeedX
                /\ clouds'[i].Alpha = clouds[i].Alpha
                /\ clouds'[i].X \in {clouds[i].X + clouds[i].SpeedX,
                                     -clouds[i].Width}]_vars

\* a tick without scroll, in a session whose earlier scrolls have recycled
\* platforms and spawned a boost that is still there
C30_Witness ==
    /\ ~gameOver /\ tick >= 1 /\ ~ev.scrolled
    /\ score > 0 /\ camera > 0
    /\ Len(boosts) > 0 /\ Len(birds) > 0

\* the heights the seed has a recycled bird try, in the order of the tries
TriedHeight(k) == M(-BirdHeight) - Cyc(seed.birdYIntn, k) * M(BirdHeight)

\* the tries at which fewer than MaxBirdsPerLine of the birds seen, other
\* than bird i, are within one BirdHeight of the height tried
FreeTries(i, seen) ==
    {k \in 1..10 :
        Cardinality({j \in DOMAIN seen \ {i} :
                        Abs(seen[j].Y - TriedHeight(k)) < M(BirdHeight)})
           < MaxBirdsPerLine}

\* C31: a bird the scroll has put back in the last tick is above the screen
\* (Y < 0); it is at the height of the first of its at most 10 tries (each one
\* of -BirdHeight, -2*BirdHeight, -3*BirdHeight) at which fewer than
\* MaxBirdsPerLine other birds were within one BirdHeight, as the placement
\* found the birds; if no try of the 10 is free it is far above, between
\* -10*BirdHeight and -5*BirdHeight; and its speed is within the current
\* birdSpeedMin..birdSpeedMax.
C31_RecycledBirdPlacement ==
    \A p \in ev.birdsSeen :
        LET i    == p[1]
            free == FreeTries(i, p[2])
        IN  /\ i \in ev.birdsRecycled
            /\ birds[i].Y < 0
            /\ free # {} =>
                  /\ birds[i].Y = TriedHeight(CHOOSE k \in free : \A l \in free : k <= l)
                  /\ birds[i].Y \in {M(-BirdHeight), M(-2 * BirdHeight), M(-3 * BirdHeight)}
            /\ free = {} =>
                  /\ birds[i].Y >= M(-10 * BirdHeight)
                  /\ birds[i].Y <= M(-5 * BirdHeight)
            /\ birds[i].SpeedX >= birdSpeedMin
            /\ birds[i].SpeedX <= birdSpeedMax

\* a bird has been put back at its second try, its first being crowded,
\* among at least three birds
C31_Witness ==
    /\ ~gameOver /\ Len(birds) >= 3
    /\ \E p \in ev.birdsSeen :
          /\ 1 \notin FreeTries(p[1], p[2])
          /\ 2 \in FreeTries(p[1], p[2])
          /\ birds[p[1]].Y = M(-2 * BirdHeight)

\* the birds other than i within one BirdHeight of bird i
BirdsNear(i) ==
    {j \in DOMAIN birds \ {i} : Abs(birds[j].Y - birds[i].Y) < M(BirdHeight)}

\* C32: no more than MaxBirdsPerLine birds are at the same height: at every
\* tick boundary every bird has fewer than MaxBirdsPerLine other birds
\* within one BirdHeight of its Y.
C32_MaxBirdsPerLine ==
    \A i \in DOMAIN birds : Cardinality(BirdsNear(i)) < MaxBirdsPerLine

\* bullet b after its move of the tick
MovedBullet(b) == [b EXCEPT !.X = @ + b.Speed * b.Direction]

\* the moved bullet b is off the screen
BulletIsOut(b) == MovedBullet(b).X < 0 \/ MovedBullet(b).X > M(ScreenWidth)

\* the birds the moved bullet b is inside, as the tick found the birds
BirdsInside(b) == {j \in DOMAIN birds : BulletHits(MovedBullet(b), birds[j])}

\* C33: every live bullet has X in [0, ScreenWidth] at every tick boundary.
\* In a tick, of the bullets there were and the one shot, a bullet that moves
\* off the screen is removed, a bullet that moves into a bird is removed and
\* that bird (one bird per bullet) is put at -2*BirdHeight, to which only the
\* scroll of the tick is added; and every other bullet is still there,
\* moved once: none is dropped, skipped or doubled by a removal.
C33_BulletsRemovedCleanly ==
    /\ [](\A i \in DOMAIN bullets :
             bullets[i].X >= 0 /\ bullets[i].X <= M(ScreenWidth))
    /\ [][(~gameOver /\ tick' = tick + 1) =>
            LET all  == Range(bullets) \cup ev'.shots
                gone == {b \in all : BulletIsOut(b)}
                hits == {b \in all \ gone : BirdsInside(b) # {}}
            IN  /\ Range(bullets') = {MovedBullet(b) : b \in all \ (gone \cup hits)}
                /\ Len(bullets') = Cardinality(all \ (gone \cup hits))
                /\ Cardinality(ev'.birdsShot) = Cardinality(hits)
                /\ \A j \in ev'.birdsShot :
                      /\ \E b \in hits : j \in BirdsInside(b)
                      /\ birds'[j].Y = M(-BirdHeight * 2) + (camera' - camera)]_vars

\* a tick with two bullets in flight has removed the older one, which was
\* inside a bird, and has moved the younger one on
C33_Witness ==
    /\ ~gameOver /\ ev.birdsShot # {}
    /\ Len(bullets) >= 1
    /\ \A j \in ev.birdsShot : birds[j].Y < 0

\* the particles are at most one, spawned above the screen in the last tick
OnlyFreshParticles(ps) ==
    /\ Len(ps) <= 1
    /\ \A i \in DOMAIN ps : ps[i].Y - ps[i].SpeedY < 0

\* C34: every weather change, by the countdown running out or by W newly
\* pressed, sets the countdown to a value of 15 to 35 seconds and removes
\* every particle that was live before the change.
C34_ChangeRerollsAndClears ==
    [][(~gameOver /\ tick' = tick + 1
           /\ (ev'.weatherDrawn \/ ("W" \in keysPrev' /\ "W" \notin keysPrev)))
          => /\ \E n \in 15..35 : weatherTimer' = F64Seconds(n)
             /\ OnlyFreshParticles(particles')]_vars

\* C34 (amended): every weather change removes every particle that was live
\* before the change; a change by the countdown running out sets the
\* countdown to a value of 15 to 35 seconds, while W newly pressed leaves
\* the countdown running (it loses its 0.016 of the tick and no more).
C34_ExpiryRerollsChangeClears ==
    [][(~gameOver /\ tick' = tick + 1
           /\ (ev'.weatherDrawn \/ ("W" \in keysPrev' /\ "W" \notin keysPrev)))
          => /\ OnlyFreshParticles(particles')
             /\ IF ev'.weatherDrawn
                THEN \E n \in 15..35 : weatherTimer' = F64Seconds(n)
                ELSE weatherTimer' = F64Sub(weatherTimer, WeatherStep)]_vars

\* W has been pressed with several particles in the air and the countdown
\* running: the weather has changed, the particles are gone and the countdown
\* is where it was but for the tick
C34_Witness ==
    /\ ~gameOver /\ tick >= 20
    /\ "W" \in ev.keys /\ "W" \notin ev.prev /\ ~ev.weatherDrawn
    /\ weather # ev.weatherWas
    /\ OnlyFreshParticles(particles)
    /\ \A n \in 15..35 : weatherTimer # F64Seconds(n)

\* C35: the visibility of the stars on the screen is the continuous function
\* of the time of day t that is 1 - t/0.2 on [0, 0.2), 0 on [0.2, 0.7],
\* (t - 0.7)/0.2 on [0.7, 0.9) and 1 on [0.9, 1): it is 1 at t = 0.9.
C35_StarAlphaContinuous ==
    screen.drawn =>
       LET t == screen.timeOfDay
       IN  screen.starAlpha =
              IF t < SunriseEnd THEN Milli - (t * Milli) \div SunriseEnd
              ELSE IF t <= SunsetStart THEN 0
              ELSE IF t < SunsetEnd
              THEN ((t - SunsetStart) * Milli) \div (SunsetEnd - SunsetStart)
              ELSE Milli

\* C36: the pair of key colours on the screen brackets the time of day t:
\* the time of the earlier is at most t and t is before the time of the
\* later, which for the last key colour (Night, 0.9) is Midnight at the end
\* of the day.
C36_BracketingPair ==
    screen.drawn =>
       /\ KeyTimes[screen.idx + 1] <= screen.timeOfDay
       /\ screen.timeOfDay < (IF screen.idx + 2 <= Len(KeyTimes)
                              THEN KeyTimes[screen.idx + 2] ELSE Milli)

\* C38: Draw changes nothing of the session and takes no value from the
\* random source, so the session is at every tick what its twin is, to whom
\* the random source gives its values as if Draw had never been called.
C38_DrawReadOnly ==
    /\ [][(tick' = tick /\ ~gameOver /\ ~gameOver')
             => (UNCHANGED gameVars /\ randTaken' = randTaken)]_vars
    /\ [](Game = twin)

C39_LegalPlatformStates ==
    /\ [](\A i \in DOMAIN platforms :
             /\ platforms[i].Type \in
                   { PlatformNormal, PlatformSticky, PlatformDisappearing }
             /\ platforms[i].State \in
                   { PlatformIntact, PlatformBreaking, PlatformBroken }
             /\ platforms[i].Type # PlatformDisappearing
                   => platforms[i].State = PlatformIntact)
    /\ [][(~gameOver /\ tick' = tick + 1) =>
            \A i \in DOMAIN platforms :
               IF i \in ev'.recycled
               THEN platforms'[i].State = PlatformIntact
               ELSE /\ platforms'[i].Type = platforms[i].Type
                    /\ \/ platforms'[i].State = platforms[i].State
                       \/ /\ platforms[i].State = PlatformIntact
                          /\ platforms'[i].State = PlatformBreaking
                          /\ platforms[i].Type = PlatformDisappearing
                          /\ ev'.hit = i /\ ev'.hitKind = "break"
                          /\ player.VelocityY > 0
                       \/ /\ platforms[i].State = PlatformBreaking
                          /\ platforms'[i].State = PlatformBroken
                          /\ F64LeZero(platforms'[i].BreakTimer)]_vars

\* a platform has just been recycled and is Intact, while another, hit by
\* the player some ticks before, is Broken
C39_Witness ==
    /\ \E i \in ev.recycled : platforms[i].State = PlatformIntact
    /\ \E i \in DOMAIN platforms : platforms[i].State = PlatformBroken
    /\ score > 0

\* C40: at every tick boundary the boost collection holds at most 3 boosts,
\* the capacity it is made with, and every boost in it is active.
C40_BoostsBounded ==
    /\ Len(boosts) <= 3
    /\ \A i \in DOMAIN boosts : boosts[i].Active
====
